---- MODULE Spec2Model ----
(***************************************************************************)
(* A model of the CDP connection layer (scripts/cdp/connection.py) and of  *)
(* the collectors built on it (scripts/cdp/collectors/*.py).               *)
(*                                                                         *)
(* The program is single-threaded asyncio: a coroutine runs without        *)
(* interruption from one await to the next.  Every action below is one     *)
(* such uninterrupted segment of one coroutine (or one step of the browser *)
(* at the other end of the WebSocket).                                     *)
(***************************************************************************)
EXTENDS Integers, Sequences, FiniteSets, TLC

\* ------------------------------------------------------------------ bounds
\* How many commands are issued on one connection object.
MaxCommands == 2
\* How many events the browser emits.
MaxEvents == 2
\* How many handlers subscribe() registers in all.
MaxHandlers == 2
\* The largest max_attempts reconnect_with_backoff is called with.
MaxAttempts == 3
\* Console messages delivered to a collector.
MaxMessages == 5
\* The maxlen of a collector's deque, 1000 in the code (console.py line 77),
\* scaled down so that the buffer fills and overflows.
BufferMaxLen == 3
\* Request ids the browser uses, and network events it delivers in all.
MaxRequests == 2
MaxNetEvents == 3
MaxRegistrations == 3
MaxUnsubscribes == 2
MaxMalformed == 1
MaxStray == 1
\* Response events delivered to a collector that captures bodies.
MaxResponses == 2
\* max_body_size of a network collector, 1048576 by default (network.py
\* line 89), scaled down so that a body can be over it.
max_body_size == 2

\* --------------------------------------------------------------- constants
\* CDPConnection.__init__: timeout: float = 30.0
self_timeout == 30

CmdIds == 1..MaxCommands

\* The requestId of a network event: a request id, or None (written 0) when
\* the params carry none.
RequestIds == 1..MaxRequests
NoRequestId == 0
RequestIdArgs == RequestIds \cup { NoRequestId }

\* A CDP method name "<Domain>.<command>" is kept as its "."-separated
\* segments, so that endswith(".enable") and split(".")[0] are computed.
\* The timeout argument of execute_command is Optional[float]: << >> is None.
\* The calls made: execute_command("Console.enable") and
\* execute_command("Runtime.evaluate", ..., timeout=5).
Commands == { [ method |-> << "Console", "enable" >>, timeout |-> << >> ],
              [ method |-> << "Runtime", "evaluate" >>, timeout |-> << 5 >> ] }

\* What NetworkCollector._on_response sends to fetch a body.
GetResponseBody == << "Network", "getResponseBody" >>

\* Error codes the browser answers with.
ErrorCodes == { -32000 }

NoMethod == <<>>
NoPayload == <<>>

VARIABLES
    ws,                 \* self._ws: "None", or the socket's state: "OPEN", "CLOSING", "CLOSED"
    close_code,         \* how the peer ended the socket: "none", "OK" (1000/1001), "ERROR"
    is_connected_flag,  \* self._is_connected
    next_command_id,    \* self._next_command_id
    pending_commands,   \* keys of self._pending_commands
    futures,            \* the asyncio.Future made for each command id
    event_handlers,     \* self._event_handlers: event name -> list of handlers
    receive_task,       \* self._receive_task: "None", "running", "done", "cancelled"
    enabled_domains,    \* self._enabled_domains
    calls,              \* the execute_command coroutines, by command id
    browser_cmds,       \* command ids the browser has received and not answered
    inbox,              \* messages on the socket, not yet read by the receive loop
    disc,               \* where the disconnect() coroutine is: "idle", "await_task",
                        \* "closing", "returned"
    reconnect,          \* the last call of conn.reconnect_with_backoff
    connect_call,       \* the last call of conn.connect() and how it ended
    unsubscribe_call,   \* the last call of conn.unsubscribe() and how it ended
    refused,            \* the calls of execute_command refused so far: the states of
                        \* the connection they met and what the last one raised
    emitted,            \* number of events the browser has emitted
    ready,              \* handler tasks made by asyncio.create_task(handler(params))
                        \* and not started yet, in the order the event loop starts them
    awaiting,           \* handler tasks suspended in "await execute_command(...)"
    log,                \* the handler tasks that have ended, in order, and how
    output_path,        \* ConsoleCollector.output_path: "unset" before __init__,
                        \* then "None" or "file"
    level_filter,       \* ConsoleCollector.level_filter: "None" or a level name
    buffer,             \* ConsoleCollector._buffer
    running,            \* ConsoleCollector._running
    flush_task,         \* ConsoleCollector._flush_task: "None", "sleeping", "cancelled",
                        \* or "failed": ended with the exception of a write
    disk,               \* the entries written to the file at output_path
    stdout,             \* the entries printed to stdout
    console_msgs,       \* the levels of the console messages delivered so far;
                        \* message i bears timestamp i
    lifecycle,          \* the collector's calls of start() and stop() and how
                        \* they ended
    requests,           \* keys of NetworkCollector._requests
    stored_method,      \* per request id, "method" of the data stored under it in
                        \* _requests; "none" for an id that is not a key
    txn,                \* per request id, the last lifecycle event delivered to
                        \* the network collector: "new", "open", "closed"
    net_entries         \* the entries _on_response and _on_loading_failed have
                        \* built, in order

connVars == << ws, close_code, is_connected_flag, next_command_id, pending_commands,
               futures, receive_task, enabled_domains, calls, browser_cmds,
               inbox, disc, reconnect, connect_call, unsubscribe_call, refused >>
eventVars == << event_handlers, emitted, ready, awaiting, log >>

collVars == << output_path, level_filter, buffer, running, flush_task, disk,
               stdout, console_msgs, lifecycle >>

netVars == << requests, stored_method, txn, net_entries >>

vars == << connVars, eventVars, collVars, netVars >>

\* ----------------------------------------------------------------- values
\* What a caller of execute_command ends with: the returned result or the
\* raised exception with the attributes the code sets on it.
Outcome(kind, payload, code, method, timeout) ==
    [ kind |-> kind, payload |-> payload, code |-> code,
      method |-> method, timeout |-> timeout ]
NoOutcome == Outcome("none", NoPayload, 0, NoMethod, 0)

\* An asyncio.Future: PENDING, or done with a result, an exception, or cancelled.
NoFuture == [ state |-> "NONE", value |-> NoOutcome ]
PendingFuture == [ state |-> "PENDING", value |-> NoOutcome ]
Done(f) == f.state \in { "RESULT", "EXC", "CANCELLED" }

\* The payload the browser computes for the command it received with this id.
ResultOf(id) == << "result-of", id >>

\* Wire messages as the dict json.loads yields: the keys present, and their values.
SuccessResponse(id) ==
    [ keys |-> { "id", "result" }, id |-> id, result |-> ResultOf(id),
      code |-> 0, method |-> "", params |-> 0 ]
ErrorResponse(id, code) ==
    [ keys |-> { "id", "error" }, id |-> id, result |-> NoPayload,
      code |-> code, method |-> "", params |-> 0 ]
EventMessage(name, n) ==
    [ keys |-> { "method", "params" }, id |-> 0, result |-> NoPayload,
      code |-> 0, method |-> name, params |-> n ]

NoCall == [ pc |-> "none", method |-> NoMethod, timeout |-> <<>>,
            outcome |-> NoOutcome, owner |-> << >> ]

\* connect() has not been called.  Of a call are kept: whether the connection
\* was connected when it was made, how it ended, what the error raised
\* carries in details["url"] and details["error"], what websockets.connect
\* raised, whether a running receive task was left behind, and what the call
\* found: the handlers registered and the number of events the browser had
\* emitted.
NoConnectCall ==
    [ was_connected |-> FALSE, outcome |-> "none", url |-> "", error |-> "",
      cause |-> "", orphaned |-> FALSE, handlers |-> << >>, events |-> 0 ]

\* unsubscribe() has not been called.  Of a call are kept: how many calls
\* there have been, the event name and the callback it was given, whether
\* list.remove found the callback, and how the call ended.
NoUnsubscribeCall ==
    [ n |-> 0, event |-> "", handler |-> "", found |-> FALSE, outcome |-> "none" ]

\* Neither start() nor stop() of the collector has been called.  Of start()
\* are kept how far it is, the id of its enable command and the exception it
\* raised; of stop() how it ended; of the block of an "async with" how it
\* ended and what left the statement.
NoLifecycle ==
    [ start |-> "none", cmd |-> 0, error |-> "", stop |-> "none",
      block |-> "none", propagated |-> "none" ]

\* No call of execute_command has been refused.
NoRefused == [ met |-> {}, outcome |-> "none", message |-> "" ]

NoReconnect == [ called |-> FALSE, max_attempts |-> 0, outcome |-> "none",
                 attempts |-> 0, replayed |-> {} ]

\* ---------------------------------------------------------------- helpers
\* CDPConnection.is_connected (property)
is_connected ==
    IF ~is_connected_flag \/ ws = "None" THEN FALSE ELSE ws = "OPEN"

\* For comparison: a broader matching, which takes every method whose last
\* part begins with "enable" or ends with "able".
EndsWithEnableLoosely(method) ==
    Len(method) >= 2
    /\ method[Len(method)] \in { "enable", "enableSomething", "disable" }

\* method.endswith(".enable")
EndsWithEnable(method) ==
    Len(method) >= 2 /\ method[Len(method)] = "enable"

\* method.split(".")[0]
DomainOf(method) == method[1]

\* timeout if timeout is not None else self.timeout
CmdTimeout(t) == IF Len(t) = 0 THEN self_timeout ELSE t[1]

\* ------------------------------------------------------------------- Init
Init ==
    /\ ws = "None"
    /\ close_code = "none"
    /\ is_connected_flag = FALSE
    /\ next_command_id = 1
    /\ pending_commands = {}
    /\ futures = [ id \in CmdIds |-> NoFuture ]
    /\ event_handlers = [ e \in {} |-> << >> ]
    /\ receive_task = "None"
    /\ enabled_domains = {}
    /\ calls = [ id \in CmdIds |-> NoCall ]
    /\ browser_cmds = {}
    /\ inbox = << >>
    /\ disc = "idle"
    /\ reconnect = NoReconnect
    /\ connect_call = NoConnectCall
    /\ unsubscribe_call = NoUnsubscribeCall
    /\ refused = NoRefused
    /\ emitted = 0
    /\ ready = << >>
    /\ awaiting = {}
    /\ log = << >>
    /\ output_path = "unset"
    /\ level_filter = "None"
    /\ buffer = << >>
    /\ running = FALSE
    /\ flush_task = "None"
    /\ disk = << >>
    /\ stdout = << >>
    /\ console_msgs = << >>
    /\ lifecycle = NoLifecycle
    /\ requests = {}
    /\ stored_method = [ id \in RequestIds |-> "none" ]
    /\ txn = [ id \in RequestIds |-> "new" ]
    /\ net_entries = << >>

\* ------------------------------------------------------------ connection
\* CDPConnection("ws://localhost:9222/test") (tests/unit/test_connection.py
\* line 88)
ws_url == "ws://localhost:9222/test"

\* What websockets.connect raises when it fails, as str(e).
ConnectCauses == { "Connection refused", "timed out during handshake" }

\* For comparison: a connect() that starts the command ids again at 1, as
\* __init__ does.
ConnectResetsIds ==
    /\ receive_task # "running"
    /\ disc \in { "idle", "returned" }
    /\ ws' = "OPEN"
    /\ close_code' = "none"
    /\ is_connected_flag' = TRUE
    /\ receive_task' = "running"
    /\ inbox' = << >>
    /\ browser_cmds' = {}
    /\ disc' = "idle"
    /\ next_command_id' = 1
    /\ connect_call' = [ NoConnectCall EXCEPT !.was_connected = is_connected,
                                               !.outcome = "returned",
                                               !.handlers = event_handlers,
                                               !.events = emitted ]
    /\ UNCHANGED << pending_commands, futures, enabled_domains,
                    calls, reconnect, unsubscribe_call, refused, collVars, netVars, eventVars >>

\* For comparison: a connect() that starts with no handler registered, as
\* __init__ does.
ConnectClearsHandlers ==
    /\ receive_task # "running"
    /\ disc \in { "idle", "returned" }
    /\ ws' = "OPEN"
    /\ close_code' = "none"
    /\ is_connected_flag' = TRUE
    /\ receive_task' = "running"
    /\ inbox' = << >>
    /\ browser_cmds' = {}
    /\ disc' = "idle"
    /\ event_handlers' = << >>
    /\ connect_call' = [ NoConnectCall EXCEPT !.was_connected = is_connected,
                                               !.outcome = "returned",
                                               !.handlers = event_handlers,
                                               !.events = emitted ]
    /\ UNCHANGED << next_command_id, pending_commands, futures, enabled_domains,
                    calls, reconnect, unsubscribe_call, refused, collVars, netVars,
                    emitted, ready, awaiting, log >>

\* connect(): websockets.connect succeeded (lines 104-110).  A new socket
\* carries nothing yet.  The caller connects a connection that has no
\* receive loop running and no disconnect() under way.
Connect ==
    /\ receive_task # "running"
    /\ disc \in { "idle", "returned" }
    /\ ws' = "OPEN"
    /\ close_code' = "none"
    /\ is_connected_flag' = TRUE
    /\ receive_task' = "running"
    /\ inbox' = << >>
    /\ browser_cmds' = {}
    /\ disc' = "idle"
    /\ connect_call' = [ NoConnectCall EXCEPT !.was_connected = is_connected,
                                               !.outcome = "returned",
                                               !.handlers = event_handlers,
                                               !.events = emitted ]
    /\ UNCHANGED << next_command_id, pending_commands, futures, enabled_domains,
                    calls, reconnect, unsubscribe_call, refused, collVars, netVars, eventVars >>

\* connect() on a connection that is connected, with no command in flight
\* and nothing unread: nothing in lines 96-115 looks at the state, so the
\* socket and the receive task are replaced like on a first connect.  The
\* task that was running stays alive on the socket that was replaced.
ConnectWhileConnected ==
    /\ is_connected
    /\ receive_task = "running"
    /\ disc = "idle"
    /\ inbox = << >>
    /\ browser_cmds = {}
    /\ \A id \in CmdIds : calls[id].pc \in { "none", "done" }
    /\ ~ connect_call.orphaned
    /\ connect_call' = [ NoConnectCall EXCEPT !.was_connected = is_connected,
                                               !.outcome = "returned",
                                               !.orphaned = TRUE ]
    /\ UNCHANGED << ws, close_code, is_connected_flag, receive_task, inbox,
                    browser_cmds, disc, next_command_id, pending_commands, futures,
                    enabled_domains, calls, reconnect, unsubscribe_call, refused, collVars,
                    netVars, eventVars >>

\* For comparison: the error raised when websockets.connect fails carries
\* neither the URL nor the cause.
ConnectionFailedNoDetails(url, e) ==
    [ NoConnectCall EXCEPT !.was_connected = is_connected,
                           !.outcome = "ConnectionFailedError", !.cause = e ]

\* raise ConnectionFailedError(..., details={"url": self.ws_url,
\* "error": str(e)}) (lines 111-115)
ConnectionFailed(url, e) ==
    [ NoConnectCall EXCEPT !.was_connected = is_connected,
                           !.outcome = "ConnectionFailedError",
                           !.url = url, !.error = e, !.cause = e ]

\* connect(): websockets.connect raised (lines 102-115); nothing was
\* assigned before it.
ConnectFails ==
    \E e \in ConnectCauses :
        /\ receive_task # "running"
        /\ disc \in { "idle", "returned" }
        /\ connect_call' = ConnectionFailed(ws_url, e)
        /\ UNCHANGED << ws, close_code, is_connected_flag, receive_task, inbox,
                        browser_cmds, disc, next_command_id, pending_commands,
                        futures, enabled_domains, calls, reconnect, unsubscribe_call, refused,
                        collVars, netVars, eventVars >>

\* ------------------------------------------------------- execute_command
\* For comparison: a tracking that takes the domain of a ".disable" method
\* out again.
TrackDomainDisables(method, domains) ==
    IF EndsWithEnable(method) THEN domains \cup { DomainOf(method) }
    ELSE IF Len(method) >= 2 /\ method[Len(method)] = "disable"
         THEN domains \ { DomainOf(method) }
    ELSE domains

\* Lines 194-197: the domain of an ".enable" method is recorded when the
\* command is built, before it is sent.
TrackDomain(method, domains) ==
    IF EndsWithEnable(method) THEN domains \cup { DomainOf(method) } ELSE domains

\* What the caller gets from a future that is done: wait_for returns the
\* result, re-raises the exception, or, the future cancelled by the timeout,
\* CDPTimeoutError(command_method=method, timeout=cmd_timeout) (lines 212-220).
OutcomeOf(f, method, t) ==
    IF f.state = "CANCELLED"
    THEN Outcome("CDPTimeoutError", NoPayload, 0, method, CmdTimeout(t))
    ELSE f.value

\* For comparison: an execute_command without the finally clause, which
\* leaves the id of a finished command registered.
PopPendingNever(pending, id) == pending

\* finally: self._pending_commands.pop(cmd_id, None) (lines 221-223)
PopPending(pending, id) == pending \ { id }

\* execute_command from its entry to the await of self._ws.send (lines 183-207):
\* one uninterrupted segment.  owner is << >> for a caller outside the
\* connection, or the handler task that calls.
ExecuteCommand(method, t, owner) ==
    /\ is_connected
    /\ next_command_id <= MaxCommands
    /\ LET id == next_command_id IN
        /\ next_command_id' = id + 1
        /\ futures' = [ futures EXCEPT ![id] = PendingFuture ]
        /\ pending_commands' = pending_commands \cup { id }
        /\ enabled_domains' = TrackDomain(method, enabled_domains)
        /\ calls' = [ calls EXCEPT ![id] =
                        [ pc |-> "sending", method |-> method, timeout |-> t,
                          outcome |-> NoOutcome, owner |-> owner ] ]

\* The handler task that awaited call id, if there is one, goes on to its
\* end in the same segment: _on_response swallows an exception of the body
\* fetch and produces its record (network.py lines 224-240).
TaskOfCallEnds(id) ==
    LET mine == { t \in awaiting : t.cmd = id } IN
    IF mine = {}
    THEN UNCHANGED << awaiting, log >>
    ELSE /\ awaiting' = awaiting \ mine
         /\ log' = Append(log, [ ev |-> (CHOOSE t \in mine : TRUE).ev,
                                 pos |-> (CHOOSE t \in mine : TRUE).pos,
                                 handler |-> "_on_response", how |-> "returned" ])

\* execute_command returns or raises: the caller has its outcome and the
\* finally has popped the id.
FinishCall(id) ==
    /\ calls' = [ calls EXCEPT ![id].pc = "done",
                    ![id].outcome = OutcomeOf(futures[id], calls[id].method,
                                              calls[id].timeout) ]
    /\ pending_commands' = PopPending(pending_commands, id)
    /\ TaskOfCallEnds(id)

\* A caller outside the connection issues a command.
Execute ==
    /\ \E c \in Commands : ExecuteCommand(c.method, c.timeout, << >>)
    /\ UNCHANGED << ws, close_code, is_connected_flag, receive_task, browser_cmds,
                    inbox, disc, reconnect, collVars, netVars, connect_call, unsubscribe_call, refused, eventVars >>

\* The state a refused call meets: no socket was ever made; disconnect()
\* was called; or the socket has ended, whether or not the receive loop has
\* noticed.
StateMet ==
    IF ws = "None" THEN "never connected"
    ELSE IF disc # "idle" THEN "disconnected"
    ELSE "transport closed"

\* For comparison: an execute_command that tests the connection only after
\* it has built the command, that is after lines 186-197.
RefusedAfterBuild(method) ==
    /\ next_command_id' = next_command_id + 1
    /\ enabled_domains' = TrackDomain(method, enabled_domains)
    /\ UNCHANGED << pending_commands, futures, calls, browser_cmds >>

\* Lines 183-184 come first in execute_command: when they raise, no line
\* after them has run.
Refused(method) ==
    UNCHANGED << next_command_id, enabled_domains, pending_commands, futures, calls,
                 browser_cmds >>

\* execute_command on a connection whose is_connected is False (lines
\* 183-184): raise ConnectionClosedError("Cannot execute command: connection
\* not active").
ExecuteNotConnected ==
    \E c \in Commands :
        /\ ~ is_connected
        /\ next_command_id <= MaxCommands
        /\ refused' = [ met |-> refused.met \cup { StateMet },
                        outcome |-> "ConnectionClosedError",
                        message |-> "Cannot execute command: connection not active" ]
        /\ Refused(c.method)
        /\ UNCHANGED << ws, close_code, is_connected_flag, receive_task, inbox, disc,
                        reconnect, connect_call, unsubscribe_call, collVars, netVars,
                        eventVars >>

\* The methods a caller turns domains on and off with.
DomainMethods == { << "Console", "enable" >>, << "Console", "disable" >> }

\* A caller outside the connection turns a domain on or off, with the
\* default timeout.
ExecuteDomainCommand ==
    /\ \E m \in DomainMethods : ExecuteCommand(m, << >>, << >>)
    /\ UNCHANGED << ws, close_code, is_connected_flag, receive_task, browser_cmds,
                    inbox, disc, reconnect, collVars, netVars, connect_call,
                    unsubscribe_call, refused, eventVars >>

\* Methods a caller can pass, written as their parts between the dots:
\* "Console.enable", "Network.enable", "Console.enableSomething",
\* "Console.disable", "Runtime.evaluate", "enable" (no dot),
\* "Page.lifecycle.enable" (two dots) and "enable.Console".
MethodArgs ==
    { << "Console", "enable" >>, << "Network", "enable" >>,
      << "Console", "enableSomething" >>, << "Console", "disable" >>,
      << "Runtime", "evaluate" >>, << "enable" >>,
      << "Page", "lifecycle", "enable" >>, << "enable", "Console" >> }

\* A caller outside the connection issues a command with any of these
\* methods.
ExecuteMethod ==
    /\ \E m \in MethodArgs : ExecuteCommand(m, << >>, << >>)
    /\ UNCHANGED << ws, close_code, is_connected_flag, receive_task, browser_cmds,
                    inbox, disc, reconnect, collVars, netVars, connect_call,
                    unsubscribe_call, refused, eventVars >>

\* self._ws.send returned (line 207): the browser has the command.  wait_for
\* on a future that is already done returns or raises at once.
SendDone ==
    \E id \in CmdIds :
        /\ calls[id].pc = "sending"
        /\ ws = "OPEN"
        /\ browser_cmds' = browser_cmds \cup { id }
        /\ IF Done(futures[id])
           THEN FinishCall(id)
           ELSE /\ calls' = [ calls EXCEPT ![id].pc = "waiting" ]
                /\ UNCHANGED << pending_commands, awaiting, log >>
        /\ UNCHANGED << ws, close_code, is_connected_flag, next_command_id, futures,
                        receive_task, enabled_domains, inbox, disc, reconnect, collVars, netVars, connect_call, unsubscribe_call, refused,
                        event_handlers, emitted, ready >>

\* self._ws.send raised because the socket is no longer open: the websockets
\* exception is not an asyncio.TimeoutError, so only the finally runs
\* (lines 206-223) and the exception leaves execute_command as it is.
SendFails ==
    \E id \in CmdIds :
        /\ calls[id].pc = "sending"
        /\ ws # "OPEN"
        /\ calls' = [ calls EXCEPT ![id].pc = "done",
                        ![id].outcome = Outcome("websockets.ConnectionClosed",
                                                NoPayload, 0, NoMethod, 0) ]
        /\ pending_commands' = PopPending(pending_commands, id)
        /\ TaskOfCallEnds(id)
        /\ UNCHANGED << ws, close_code, is_connected_flag, next_command_id, futures,
                        receive_task, enabled_domains, browser_cmds, inbox, disc,
                        reconnect, collVars, netVars, connect_call, unsubscribe_call, refused, event_handlers, emitted, ready >>

\* asyncio.wait_for: the timeout elapses while the future is pending; the
\* future is cancelled (line 212).
Timeout ==
    \E id \in CmdIds :
        /\ calls[id].pc = "waiting"
        /\ futures[id].state = "PENDING"
        /\ futures' = [ futures EXCEPT ![id].state = "CANCELLED" ]
        /\ UNCHANGED << ws, close_code, is_connected_flag, next_command_id,
                        pending_commands, receive_task, enabled_domains, calls,
                        browser_cmds, inbox, disc, reconnect, collVars, netVars, connect_call, unsubscribe_call, refused, eventVars >>

\* The caller resumes once its future is done: return, or raise, and in both
\* cases pop the id (lines 212-223).
Resume ==
    \E id \in CmdIds :
        /\ calls[id].pc = "waiting"
        /\ Done(futures[id])
        /\ FinishCall(id)
        /\ UNCHANGED << ws, close_code, is_connected_flag, next_command_id, futures,
                        receive_task, enabled_domains, browser_cmds, inbox, disc,
                        reconnect, collVars, netVars, connect_call, unsubscribe_call, refused, event_handlers, emitted, ready >>

\* ---------------------------------------------------------------- browser
\* The browser answers a command it holds, in any order, with a result.
BrowserResult ==
    \E id \in browser_cmds :
        /\ ws = "OPEN"
        /\ inbox' = Append(inbox, SuccessResponse(id))
        /\ browser_cmds' = browser_cmds \ { id }
        /\ UNCHANGED << ws, close_code, is_connected_flag, next_command_id,
                        pending_commands, futures, receive_task, enabled_domains,
                        calls, disc, reconnect, collVars, netVars, connect_call, unsubscribe_call, refused, eventVars >>

\* The browser answers a command it holds with a structured error.
BrowserError ==
    \E id \in browser_cmds, code \in ErrorCodes :
        /\ ws = "OPEN"
        /\ inbox' = Append(inbox, ErrorResponse(id, code))
        /\ browser_cmds' = browser_cmds \ { id }
        /\ UNCHANGED << ws, close_code, is_connected_flag, next_command_id,
                        pending_commands, futures, receive_task, enabled_domains,
                        calls, disc, reconnect, collVars, netVars, connect_call, unsubscribe_call, refused, eventVars >>

\* A response bearing the id of a command the browser has answered already,
\* with another payload than the answer.
DuplicateResponse(id) ==
    [ SuccessResponse(id) EXCEPT !.result = << "duplicate-of", id >> ]

\* An id the connection never issues.
UnknownId == MaxCommands + 1

\* The responses in the inbox that answer no command: a second response to
\* an id, or a response to an id never issued.
StrayIn(msgs) ==
    Cardinality({ i \in 1..Len(msgs) :
                    /\ "id" \in msgs[i].keys
                    /\ \/ msgs[i].id = UnknownId
                       \/ msgs[i].result = << "duplicate-of", msgs[i].id >> })

\* The peer answers a second time a command it has answered.
BrowserDuplicates ==
    \E id \in CmdIds :
        /\ ws = "OPEN"
        /\ calls[id].pc \in { "waiting", "done" }
        /\ id \notin browser_cmds
        /\ StrayIn(inbox) < MaxStray
        /\ inbox' = Append(inbox, DuplicateResponse(id))
        /\ UNCHANGED << ws, close_code, is_connected_flag, next_command_id,
                        pending_commands, futures, receive_task, enabled_domains,
                        calls, browser_cmds, disc, reconnect, collVars, netVars,
                        connect_call, unsubscribe_call, refused, eventVars >>

\* The peer sends a response that bears an id no command has.
BrowserUnknownId ==
    /\ ws = "OPEN"
    /\ StrayIn(inbox) < MaxStray
    /\ inbox' = Append(inbox, SuccessResponse(UnknownId))
    /\ UNCHANGED << ws, close_code, is_connected_flag, next_command_id,
                    pending_commands, futures, receive_task, enabled_domains,
                    calls, browser_cmds, disc, reconnect, collVars, netVars,
                    connect_call, unsubscribe_call, refused, eventVars >>

\* The peer ends the socket: with a close frame of code 1000 or 1001 ("OK"),
\* or in any other way, a crash or a reset included ("ERROR").
TransportCloses ==
    \E code \in { "OK", "ERROR" } :
        /\ ws = "OPEN"
        /\ ws' = "CLOSED"
        /\ close_code' = code
        /\ UNCHANGED << is_connected_flag, next_command_id, pending_commands, futures,
                        receive_task, enabled_domains, calls, browser_cmds, inbox,
                        disc, reconnect, collVars, netVars, connect_call, unsubscribe_call, refused, eventVars >>

\* What the turn of the loop on a frame that is no CDP message runs into:
\* json.loads raises JSONDecodeError (text that is not JSON); the tests
\* '"id" in data' raise TypeError (JSON that is a number, true or null); or
\* nothing is raised and neither branch is taken (a JSON object with neither
\* "id" nor "method", a JSON list) (lines 274-300).
MalformedKinds == { "JSONDecodeError", "TypeError", "neither" }

\* A frame that is no CDP message; what it is shows when the loop takes it.
MalformedMessage == [ keys |-> {} ]

\* The number of frames in the inbox that are no CDP message.
MalformedIn(msgs) == Cardinality({ i \in 1..Len(msgs) : msgs[i].keys = {} })

\* The peer sends a frame that is no CDP message.
BrowserSendsMalformed ==
    /\ ws = "OPEN"
    /\ MalformedIn(inbox) < MaxMalformed
    /\ inbox' = Append(inbox, MalformedMessage)
    /\ UNCHANGED << ws, close_code, is_connected_flag, next_command_id,
                    pending_commands, futures, receive_task, enabled_domains,
                    calls, browser_cmds, disc, reconnect, collVars, netVars,
                    connect_call, unsubscribe_call, refused, eventVars >>

\* ----------------------------------------------------------- receive loop
\* For comparison: a loop that hands each response to the oldest command
\* still waiting, whatever id the response bears.
RouteResponseOldest(m, pending, futs) ==
    LET open == { id \in pending : futs[id].state = "PENDING" } IN
    IF open = {}
    THEN futs
    ELSE LET oldest == CHOOSE id \in open : \A other \in open : id <= other IN
         [ futs EXCEPT ![oldest] =
             [ state |-> "RESULT",
               value |-> [ kind |-> "result", payload |-> m.result, code |-> 0,
                           method |-> << >>, timeout |-> 0 ] ] ]

\* For comparison: futures that take a second result, the last response to
\* arrive for a registered id replacing what the future held.
RouteResponseOverwrites(m, pending, futs) ==
    IF m.id \in pending
    THEN [ futs EXCEPT ![m.id] =
             [ state |-> "RESULT",
               value |-> Outcome("result", m.result, 0, NoMethod, 0) ] ]
    ELSE futs

\* Lines 278-296: a message with an "id".  A future that is already done
\* refuses set_result/set_exception with InvalidStateError, which line 319
\* logs.
RouteResponse(m, pending, futs) ==
    IF m.id \in pending /\ futs[m.id].state = "PENDING"
    THEN IF "error" \in m.keys
         THEN [ futs EXCEPT ![m.id] =
                  [ state |-> "EXC",
                    value |-> Outcome("CommandFailedError", NoPayload, m.code,
                                      NoMethod, 0) ] ]
         ELSE [ futs EXCEPT ![m.id] =
                  [ state |-> "RESULT",
                    value |-> Outcome("result", m.result, 0, NoMethod, 0) ] ]
    ELSE futs

\* Lines 326-330: every future still pending gets ConnectionClosedError.
FailPending(pending, futs) ==
    [ id \in CmdIds |->
        IF id \in pending /\ futs[id].state = "PENDING"
        THEN [ state |-> "EXC",
               value |-> Outcome("ConnectionClosedError", NoPayload, 0, NoMethod, 0) ]
        ELSE futs[id] ]

\* For comparison: a loop that awaits the handlers of an event before it
\* reads on, and so reads nothing while a handler task is unfinished.
LoopReadsAfterHandlers ==
    /\ receive_task = "running"
    /\ inbox # << >>
    /\ ready = << >>
    /\ awaiting = {}

\* "async for message in self._ws" (line 273) yields the next message: the
\* receive task is alive and a message has arrived.  Nothing else is waited
\* for.
LoopReads ==
    /\ receive_task = "running"
    /\ inbox # << >>

\* One turn of "async for message in self._ws" on a command response.
RecvResponse ==
    /\ LoopReads
    /\ "id" \in Head(inbox).keys
    /\ futures' = RouteResponse(Head(inbox), pending_commands, futures)
    /\ inbox' = Tail(inbox)
    /\ UNCHANGED << ws, close_code, is_connected_flag, next_command_id,
                    pending_commands, receive_task, enabled_domains, calls,
                    browser_cmds, disc, reconnect, collVars, netVars, connect_call, unsubscribe_call, refused,
                    eventVars >>

\* For comparison: a loop without the inner try, in which the exception of a
\* frame ends the coroutine through "except Exception" of the outer try.
RecvMalformedEndsLoop ==
    /\ LoopReads
    /\ Head(inbox).keys = {}
    /\ inbox' = Tail(inbox)
    /\ \E why \in MalformedKinds :
          IF why = "neither"
          THEN UNCHANGED << receive_task, is_connected_flag >>
          ELSE receive_task' = "done" /\ is_connected_flag' = FALSE
    /\ UNCHANGED << ws, close_code, next_command_id, pending_commands, futures,
                    enabled_domains, calls, browser_cmds, disc, reconnect,
                    collVars, netVars, connect_call, unsubscribe_call, refused, eventVars >>

\* One turn of "async for message in self._ws" on a frame that is no CDP
\* message: the exception is caught and logged inside the iteration
\* (lines 316-320), or there is none, and the loop takes the next message.
RecvMalformed ==
    /\ LoopReads
    /\ Head(inbox).keys = {}
    /\ \E why \in MalformedKinds : inbox' = Tail(inbox)
    /\ UNCHANGED << ws, close_code, is_connected_flag, next_command_id,
                    pending_commands, futures, receive_task, enabled_domains, calls,
                    browser_cmds, disc, reconnect, collVars, netVars, connect_call,
                    unsubscribe_call, refused, eventVars >>

\* The socket ended other than by a normal close: the iteration raises
\* ConnectionClosed once the messages read before it are consumed
\* (lines 322-330).
LoopConnectionClosed ==
    /\ receive_task = "running"
    /\ inbox = << >>
    /\ ws = "CLOSED"
    /\ close_code = "ERROR"
    /\ is_connected_flag' = FALSE
    /\ futures' = FailPending(pending_commands, futures)
    /\ receive_task' = "done"
    /\ UNCHANGED << ws, close_code, next_command_id, pending_commands,
                    enabled_domains, calls, browser_cmds, inbox, disc, reconnect, collVars, netVars, connect_call, unsubscribe_call, refused, eventVars >>

\* The socket ended by a normal close (code 1000 or 1001): the websockets
\* iterator ends without raising, "async for" (line 273) finishes and the
\* coroutine returns; neither except clause (lines 322-333) runs.
LoopIteratorEnds ==
    /\ receive_task = "running"
    /\ inbox = << >>
    /\ ws = "CLOSED"
    /\ close_code = "OK"
    /\ receive_task' = "done"
    /\ UNCHANGED << ws, close_code, is_connected_flag, next_command_id,
                    pending_commands, futures, enabled_domains, calls, browser_cmds,
                    inbox, disc, reconnect, collVars, netVars, connect_call, unsubscribe_call, refused, eventVars >>

\* ------------------------------------------------------------- disconnect
\* disconnect() from "Close WebSocket" on (lines 130-150), entered with the
\* receive task out of the way.
\* self._ws.close() is awaited when the socket is not closed yet; else the
\* pending commands are failed at once and the dict is cleared.
DisconnectCloseWs ==
    IF ws \in { "OPEN", "CLOSING" }
    THEN /\ ws' = "CLOSING"
         /\ disc' = "closing"
         /\ UNCHANGED << futures, pending_commands >>
    ELSE /\ futures' = FailPending(pending_commands, futures)
         /\ pending_commands' = {}
         /\ disc' = "returned"
         /\ UNCHANGED ws

\* disconnect() is called (lines 117-128): the flag is cleared, a running
\* receive task is cancelled and awaited.  A task cancelled while it waits
\* for the next message processes nothing more.
Disconnect ==
    /\ disc = "idle"
    /\ ws # "None"
    /\ is_connected_flag' = FALSE
    /\ IF receive_task = "running"
       THEN /\ receive_task' = "cancelled"
            /\ disc' = "await_task"
            /\ UNCHANGED << ws, futures, pending_commands >>
       ELSE /\ UNCHANGED receive_task
            /\ DisconnectCloseWs
    /\ UNCHANGED << close_code, next_command_id, enabled_domains, calls,
                    browser_cmds, inbox, reconnect, collVars, netVars, connect_call, unsubscribe_call, refused,
                    eventVars >>

\* "await self._receive_task" returned with CancelledError (lines 125-128).
DisconnectTaskAwaited ==
    /\ disc = "await_task"
    /\ DisconnectCloseWs
    /\ UNCHANGED << close_code, is_connected_flag, next_command_id, receive_task,
                    enabled_domains, calls, browser_cmds, inbox, reconnect, collVars, netVars, connect_call, unsubscribe_call, refused, eventVars >>

\* "await self._ws.close()" returned: the pending commands are failed and the
\* dict is cleared (lines 142-148).
DisconnectClosed ==
    /\ disc = "closing"
    /\ ws' = "CLOSED"
    /\ futures' = FailPending(pending_commands, futures)
    /\ pending_commands' = {}
    /\ disc' = "returned"
    /\ UNCHANGED << close_code, is_connected_flag, next_command_id, receive_task,
                    enabled_domains, calls, browser_cmds, inbox, reconnect, collVars, netVars, connect_call, unsubscribe_call, refused, eventVars >>

\* ---------------------------------------------------------------- reconnect
\* The attributes class CDPConnection defines (lines 33-333).
CDPConnectionAttributes ==
    { "__init__", "is_connected", "connect", "disconnect", "__aenter__",
      "__aexit__", "execute_command", "subscribe", "unsubscribe", "_receive_loop" }

\* conn.reconnect_with_backoff(max_attempts=n), as the tests call it on a
\* connection that is not connected: the attribute lookup on the object comes
\* first, and the class defines no such attribute.
ReconnectWithBackoff ==
    \E n \in 1..MaxAttempts :
        /\ ~reconnect.called
        /\ ws # "None"
        /\ ~is_connected
        /\ disc \in { "idle", "returned" }
        /\ "reconnect_with_backoff" \notin CDPConnectionAttributes
        /\ reconnect' = [ called |-> TRUE, max_attempts |-> n,
                          outcome |-> "AttributeError", attempts |-> 0,
                          replayed |-> {} ]
        /\ UNCHANGED << ws, close_code, is_connected_flag, next_command_id,
                        pending_commands, futures, receive_task, enabled_domains,
                        calls, browser_cmds, inbox, disc, eventVars, collVars, netVars, connect_call, unsubscribe_call, refused >>

\* ------------------------------------------------------------------ events
\* How many handlers are registered in all.
RECURSIVE CountHandlers(_, _)
CountHandlers(handlers, names) ==
    IF names = {} THEN 0
    ELSE LET n == CHOOSE x \in names : TRUE
         IN Len(handlers[n]) + CountHandlers(handlers, names \ { n })
Registered == CountHandlers(event_handlers, DOMAIN event_handlers)

\* Lines 240-242: a list is made for a name not seen yet; the callback is
\* appended.
AddHandler(handlers, e, h) ==
    IF e \in DOMAIN handlers
    THEN [ handlers EXCEPT ![e] = Append(@, h) ]
    ELSE handlers @@ (e :> << h >>)

\* subscribe(event_name, callback)
Subscribe(e, h) ==
    /\ Registered < MaxHandlers
    /\ event_handlers' = AddHandler(event_handlers, e, h)
    /\ UNCHANGED << connVars, collVars, netVars, emitted, ready, awaiting, log >>

\* conn.subscribe("Console.messageAdded", failing_handler / good_handler)
\* (tests/integration/test_connection_live.py lines 367-368)
SubscribeTestHandler ==
    \E h \in { "failing_handler", "good_handler" } :
        Subscribe("Console.messageAdded", h)

\* conn.subscribe("Console.messageAdded", good_handler), once
\* (tests/integration/test_connection_live.py line 368)
SubscribeGoodHandler ==
    /\ "Console.messageAdded" \notin DOMAIN event_handlers
    /\ Subscribe("Console.messageAdded", "good_handler")

\* self.connection.subscribe("Network.responseReceived", self._on_response)
\* (network.py line 125), by the start() of the one collector there is.
SubscribeOnResponse ==
    /\ "Network.responseReceived" \notin DOMAIN event_handlers
    /\ Subscribe("Network.responseReceived", "_on_response")

\* The event names and the callbacks of the calls of subscribe and
\* unsubscribe that are followed one by one
\* (tests/unit/test_connection.py lines 203-223).
SubEvents == { "Console.messageAdded", "Network.responseReceived" }
SubCallbacks == { "event_handler", "good_handler" }

\* conn.subscribe(event_name, callback) with any name and callback, the same
\* callback twice included.
SubscribeAny ==
    \E e \in SubEvents, h \in SubCallbacks :
        /\ Registered < MaxRegistrations
        /\ event_handlers' = AddHandler(event_handlers, e, h)
        /\ UNCHANGED << connVars, collVars, netVars, emitted, ready, awaiting, log >>

\* conn.subscribe(event_name, callback) inside "async with CDPConnection(...)
\* as conn:", as the unit tests call it (tests/unit/test_connection.py lines
\* 233-243).
SubscribeConnected ==
    \E e \in SubEvents, h \in SubCallbacks :
        /\ is_connected
        /\ Subscribe(e, h)

\* The positions of h in a list of callbacks.
Positions(handlers, h) == { i \in 1..Len(handlers) : handlers[i] = h }

\* For comparison: an unsubscribe that removes every registration of the
\* callback.
RemoveAll(handlers, h) == SelectSeq(handlers, LAMBDA x : x # h)

\* list.remove(callback) (line 258): the first item equal to the callback
\* goes; ValueError when there is none, and the list is as it was.
ListRemove(handlers, h) ==
    IF Positions(handlers, h) = {} THEN handlers
    ELSE LET i == CHOOSE k \in Positions(handlers, h) :
                      \A j \in Positions(handlers, h) : k <= j
         IN SubSeq(handlers, 1, i - 1) \o SubSeq(handlers, i + 1, Len(handlers))

\* conn.unsubscribe(event_name, callback) (lines 245-261): nothing for a
\* name that has no list; otherwise list.remove, whose ValueError is caught
\* and logged.  The call returns None in every case.
Unsubscribe ==
    \E e \in SubEvents, h \in SubCallbacks :
        /\ unsubscribe_call.n < MaxUnsubscribes
        /\ event_handlers' =
              IF e \in DOMAIN event_handlers
              THEN [ event_handlers EXCEPT ![e] = ListRemove(@, h) ]
              ELSE event_handlers
        /\ unsubscribe_call' =
              [ n |-> unsubscribe_call.n + 1, event |-> e, handler |-> h,
                found |-> ( e \in DOMAIN event_handlers
                            /\ Positions(event_handlers[e], h) # {} ),
                outcome |-> "returned" ]
        /\ UNCHANGED << ws, close_code, is_connected_flag, next_command_id,
                        pending_commands, futures, receive_task, enabled_domains,
                        calls, browser_cmds, inbox, disc, reconnect, connect_call, refused,
                        collVars, netVars, emitted, ready, awaiting, log >>

\* await conn.execute_command("Console.enable")
EnableConsole ==
    /\ ExecuteCommand(<< "Console", "enable" >>, << >>, << >>)
    /\ UNCHANGED << ws, close_code, is_connected_flag, receive_task, browser_cmds,
                    inbox, disc, reconnect, collVars, netVars, connect_call,
                    unsubscribe_call, refused, eventVars >>

\* The browser emits an event (no "id").
BrowserEmits(e) ==
    /\ ws = "OPEN"
    /\ emitted < MaxEvents
    /\ emitted' = emitted + 1
    /\ inbox' = Append(inbox, EventMessage(e, emitted + 1))
    /\ UNCHANGED << ws, close_code, is_connected_flag, next_command_id,
                    pending_commands, futures, receive_task, enabled_domains,
                    calls, browser_cmds, disc, reconnect, collVars, netVars, connect_call, unsubscribe_call, refused, event_handlers, ready,
                    awaiting, log >>

ConsoleEvent == BrowserEmits("Console.messageAdded")

ResponseEvent == BrowserEmits("Network.responseReceived")

\* self._event_handlers.get(event_name, []) (line 305)
HandlersFor(name) ==
    IF name \in DOMAIN event_handlers THEN event_handlers[name] ELSE << >>

\* For comparison: a loop that awaits each handler in place and lets its
\* exception end the dispatch, so that the handlers after a failing one are
\* not reached.
DispatchEventInline(handlers, n) ==
    LET bad  == { i \in 1..Len(handlers) : handlers[i] = "failing_handler" }
        last == IF bad = {} THEN Len(handlers)
                ELSE CHOOSE i \in bad : \A j \in bad : i <= j
    IN [ i \in 1..last |-> [ ev |-> n, pos |-> i, handler |-> handlers[i] ] ]

\* For comparison: a dispatch that goes through the handlers from the one
\* registered last to the one registered first.
DispatchEventNewestFirst(handlers, n) ==
    [ i \in 1..Len(handlers) |->
        [ ev |-> n, pos |-> Len(handlers) + 1 - i,
          handler |-> handlers[Len(handlers) + 1 - i] ] ]

\* Lines 306-309: asyncio.create_task(handler(params)) for each handler in
\* turn.  The body of an async handler does not run here, so nothing raises
\* here; the event loop starts the tasks later, in the order they were made.
DispatchEvent(handlers, n) ==
    [ i \in 1..Len(handlers) |-> [ ev |-> n, pos |-> i, handler |-> handlers[i] ] ]

\* For comparison: an event loop that starts the task made last first.
ScheduleNewestFirst(queue, tasks) == tasks \o queue

\* asyncio.create_task (line 308) puts the first step of the task behind
\* the callbacks that are ready: tasks start in the order they were made.
Schedule(queue, tasks) == queue \o tasks

\* One turn of "async for message in self._ws" on an event (lines 299-309).
RecvEvent ==
    /\ LoopReads
    /\ "id" \notin Head(inbox).keys
    /\ "method" \in Head(inbox).keys
    /\ ready' = Schedule(ready, DispatchEvent(HandlersFor(Head(inbox).method),
                                              Head(inbox).params))
    /\ inbox' = Tail(inbox)
    /\ UNCHANGED << ws, close_code, is_connected_flag, next_command_id,
                    pending_commands, futures, receive_task, enabled_domains, calls,
                    browser_cmds, disc, reconnect, collVars, netVars, connect_call, unsubscribe_call, refused, event_handlers, emitted,
                    awaiting, log >>

Ended(t, how) == [ ev |-> t.ev, pos |-> t.pos, handler |-> t.handler, how |-> how ]

\* The task of good_handler runs: it records the event and returns
\* (tests/integration/test_connection_live.py lines 359-361).
GoodHandlerRuns ==
    /\ ready # << >>
    /\ Head(ready).handler = "good_handler"
    /\ ready' = Tail(ready)
    /\ log' = Append(log, Ended(Head(ready), "returned"))
    /\ UNCHANGED << connVars, collVars, netVars, event_handlers, emitted, awaiting >>

\* The task of failing_handler runs and raises; the exception ends the task
\* and nothing else (tests/integration/test_connection_live.py lines 353-357).
FailingHandlerRaises ==
    /\ ready # << >>
    /\ Head(ready).handler = "failing_handler"
    /\ ready' = Tail(ready)
    /\ log' = Append(log, Ended(Head(ready), "raised"))
    /\ UNCHANGED << connVars, collVars, netVars, event_handlers, emitted, awaiting >>

\* The task of a callback of the unit tests runs: the callback takes the
\* params and returns (tests/unit/test_connection.py lines 195-196 and
\* 236-240).
CallbackRuns ==
    /\ ready # << >>
    /\ Head(ready).handler \in SubCallbacks
    /\ ready' = Tail(ready)
    /\ log' = Append(log, Ended(Head(ready), "returned"))
    /\ UNCHANGED << connVars, collVars, netVars, event_handlers, emitted, awaiting >>

\* The task of NetworkCollector._on_response with include_bodies runs up to
\* "await self.connection.execute_command(...)" (network.py lines 185-223).
OnResponseFetches ==
    /\ ready # << >>
    /\ Head(ready).handler = "_on_response"
    /\ ExecuteCommand(GetResponseBody, << >>, << Head(ready).ev, Head(ready).pos >>)
    /\ ready' = Tail(ready)
    /\ awaiting' = awaiting \cup
                     { [ ev |-> Head(ready).ev, pos |-> Head(ready).pos,
                         cmd |-> next_command_id ] }
    /\ UNCHANGED << ws, close_code, is_connected_flag, receive_task, browser_cmds,
                    inbox, disc, reconnect, collVars, netVars, connect_call, unsubscribe_call, refused, event_handlers, emitted, log >>

\* A caller outside the connection evaluates an expression, with the
\* default timeout (tests/integration/test_connection_live.py lines 383-387).
Evaluate ==
    /\ ExecuteCommand(<< "Runtime", "evaluate" >>, << >>, << >>)
    /\ UNCHANGED << ws, close_code, is_connected_flag, receive_task, browser_cmds,
                    inbox, disc, reconnect, collVars, netVars, connect_call, unsubscribe_call, refused, eventVars >>

\* ------------------------------------------------------- console collector
\* ConsoleCollector.LOG_LEVELS (console.py lines 49-57)
LOG_LEVELS ==
    [ l \in { "verbose", "debug", "log", "info", "warn", "warning", "error" } |->
        CASE l \in { "verbose", "debug" } -> 0
          [] l = "log" -> 1
          [] l = "info" -> 2
          [] l \in { "warn", "warning" } -> 3
          [] l = "error" -> 4 ]

\* self.LOG_LEVELS.get(name, 0)
LevelIndex(name) == IF name \in DOMAIN LOG_LEVELS THEN LOG_LEVELS[name] ELSE 0

\* The levels of the messages delivered, and the level_filter arguments.
MsgLevels == { "log", "warn", "error" }
FilterArgs == { "None", "warn" }

\* For comparison: a filter that keeps only what is strictly above the
\* threshold.
ShouldCaptureAbove(filter, level) ==
    IF filter = "None" THEN TRUE
    ELSE LevelIndex(level) > LevelIndex(filter)

\* _should_capture(level) (lines 158-175)
ShouldCapture(filter, level) ==
    IF filter = "None" THEN TRUE
    ELSE LevelIndex(level) >= LevelIndex(filter)

\* For comparison: a plain list in place of the deque, which grows with
\* every append.
ListAppend(buf, entry) == Append(buf, entry)

\* deque(maxlen=...).append(entry): a full deque drops its leftmost item.
DequeAppend(buf, entry) ==
    IF Len(buf) < BufferMaxLen THEN Append(buf, entry)
    ELSE Append(Tail(buf), entry)

\* For comparison: a flush that opens the file for writing, not for
\* appending, so that each flush replaces what the file had.
FlushRewrites ==
    IF output_path # "file" \/ buffer = << >>
    THEN UNCHANGED << disk, buffer >>
    ELSE /\ disk' = buffer
         /\ buffer' = << >>

\* For comparison: a flush in whose middle an append slips: the file gets
\* the buffer as it was when the write began, and the clear takes the entry
\* appended since as well.
FlushLosesAppend ==
    IF output_path # "file" \/ buffer = << >>
    THEN UNCHANGED << disk, buffer >>
    ELSE /\ disk' = disk \o SubSeq(buffer, 1, Len(buffer) - 1)
         /\ buffer' = << >>

\* _flush_to_disk() (lines 188-207): the file gets the buffer's entries in
\* order and the buffer is cleared; nothing happens without an output path
\* or with an empty buffer.
FlushToDisk ==
    IF output_path # "file" \/ buffer = << >>
    THEN UNCHANGED << disk, buffer >>
    ELSE /\ disk' = disk \o buffer
         /\ buffer' = << >>

\* ConsoleCollector(connection, output_path, level_filter) (lines 59-79).
\* The connection is the tests' mock (tests/unit/test_collectors.py): the
\* collector's calls on it return at once and change nothing here.
ConsoleCollectorInit ==
    \E path \in { "None", "file" }, filter \in FilterArgs :
        /\ output_path = "unset"
        /\ output_path' = path
        /\ level_filter' = filter
        /\ buffer' = << >>
        /\ flush_task' = "None"
        /\ running' = FALSE
        /\ UNCHANGED << connVars, eventVars, netVars, lifecycle, disk, stdout, console_msgs >>

\* For comparison: a start() that creates the flush task whether or not
\* there is an output path.
CollectorStartAlwaysFlushes ==
    /\ output_path # "unset"
    /\ ~ running
    /\ running' = TRUE
    /\ flush_task' = "sleeping"
    /\ UNCHANGED << connVars, eventVars, netVars, lifecycle, output_path, level_filter,
                    buffer, disk, stdout, console_msgs >>

\* start() (lines 81-101)
CollectorStart ==
    /\ output_path # "unset"
    /\ ~ running
    /\ running' = TRUE
    /\ flush_task' = IF output_path = "file" THEN "sleeping" ELSE flush_task
    /\ UNCHANGED << connVars, eventVars, netVars, lifecycle, output_path, level_filter, buffer, disk,
                    stdout, console_msgs >>

\* _on_message(params) (lines 126-156) for the next console message.  Of the
\* entry the timestamp and the level are kept.
OnMessage ==
    \E level \in MsgLevels :
        /\ running
        /\ Len(console_msgs) < MaxMessages
        /\ console_msgs' = Append(console_msgs, level)
        /\ LET entry == [ timestamp |-> Len(console_msgs) + 1, level |-> level ] IN
           IF level_filter # "None" /\ ~ ShouldCapture(level_filter, level)
           THEN UNCHANGED << buffer, stdout >>
           ELSE IF output_path = "None"
                THEN /\ stdout' = Append(stdout, entry)
                     /\ UNCHANGED buffer
                ELSE /\ buffer' = DequeAppend(buffer, entry)
                     /\ UNCHANGED stdout
        /\ UNCHANGED << connVars, eventVars, netVars, lifecycle, output_path, level_filter, running,
                        flush_task, disk >>

\* _periodic_flush() (lines 177-186): the sleep of 30 seconds is over, the
\* buffer is flushed and the task sleeps again.
PeriodicFlush ==
    /\ flush_task = "sleeping"
    /\ running
    /\ FlushToDisk
    /\ UNCHANGED << connVars, eventVars, netVars, lifecycle, output_path, level_filter, running,
                    flush_task, stdout, console_msgs >>

\* For comparison: a stop() that cancels the flush task and leaves the
\* buffer as it is.
CollectorStopNoFlush ==
    /\ running
    /\ running' = FALSE
    /\ flush_task' = IF flush_task = "None" THEN "None" ELSE "cancelled"
    /\ UNCHANGED << connVars, eventVars, netVars, lifecycle, output_path, level_filter, buffer, disk,
                    stdout, console_msgs >>

\* stop() (lines 103-124): the flush task is cancelled, the buffer is
\* flushed a last time.
CollectorStop ==
    /\ running
    /\ running' = FALSE
    /\ flush_task' = IF flush_task = "None" THEN "None" ELSE "cancelled"
    /\ FlushToDisk
    /\ UNCHANGED << connVars, eventVars, netVars, lifecycle, output_path, level_filter, stdout,
                    console_msgs >>

\* ------------------------------------- console collector on the connection
\* start() up to "await self.connection.execute_command("Console.enable")"
\* (console.py lines 91-92) on a connected connection.
StartEnables ==
    /\ output_path # "unset"
    /\ lifecycle.start = "none"
    /\ lifecycle.stop = "none"
    /\ ExecuteCommand(<< "Console", "enable" >>, << >>, << "start" >>)
    /\ lifecycle' = [ lifecycle EXCEPT !.start = "awaiting", !.cmd = next_command_id ]
    /\ UNCHANGED << ws, close_code, is_connected_flag, receive_task, browser_cmds,
                    inbox, disc, reconnect, connect_call, unsubscribe_call, refused, eventVars,
                    netVars, output_path, level_filter, buffer, running, flush_task,
                    disk, stdout, console_msgs >>

\* start() on a connection that is not connected: execute_command raises at
\* once (connection.py lines 183-184) and start() with it.
StartNotConnected ==
    /\ output_path # "unset"
    /\ lifecycle.start = "none"
    /\ lifecycle.stop = "none"
    /\ ~ is_connected
    /\ lifecycle' = [ lifecycle EXCEPT !.start = "raised",
                                       !.error = "ConnectionClosedError" ]
    /\ UNCHANGED << connVars, eventVars, netVars, output_path, level_filter, buffer,
                    running, flush_task, disk, stdout, console_msgs >>

\* For comparison: a start() that subscribes its handler before it enables
\* the domain, so that the handler is registered whatever the command does.
StartAfterSubscribedFirst(kind) ==
    /\ event_handlers' = AddHandler(event_handlers, "Console.messageAdded", "_on_message")
    /\ IF kind = "result"
       THEN /\ running' = TRUE
            /\ flush_task' = IF output_path = "file" THEN "sleeping" ELSE flush_task
            /\ lifecycle' = [ lifecycle EXCEPT !.start = "returned" ]
       ELSE /\ lifecycle' = [ lifecycle EXCEPT !.start = "raised", !.error = kind ]
            /\ UNCHANGED << running, flush_task >>

\* start() after the await (console.py lines 93-101): with the result of the
\* command it subscribes, sets _running and, with an output path, creates
\* the flush task; the exception of the command leaves start() at the await.
StartAfter(kind) ==
    IF kind = "result"
    THEN /\ event_handlers' = AddHandler(event_handlers, "Console.messageAdded",
                                         "_on_message")
         /\ running' = TRUE
         /\ flush_task' = IF output_path = "file" THEN "sleeping" ELSE flush_task
         /\ lifecycle' = [ lifecycle EXCEPT !.start = "returned" ]
    ELSE /\ lifecycle' = [ lifecycle EXCEPT !.start = "raised", !.error = kind ]
         /\ UNCHANGED << event_handlers, running, flush_task >>

\* self._ws.send returned for the command of start() (connection.py line
\* 207); with the future done already, execute_command and start() go on in
\* the same segment.
StartSent ==
    LET id == lifecycle.cmd IN
    /\ lifecycle.start = "awaiting"
    /\ calls[id].pc = "sending"
    /\ ws = "OPEN"
    /\ browser_cmds' = browser_cmds \cup { id }
    /\ IF Done(futures[id])
       THEN /\ FinishCall(id)
            /\ StartAfter(OutcomeOf(futures[id], calls[id].method,
                                    calls[id].timeout).kind)
       ELSE /\ calls' = [ calls EXCEPT ![id].pc = "waiting" ]
            /\ UNCHANGED << pending_commands, awaiting, log, event_handlers, running,
                            flush_task, lifecycle >>
    /\ UNCHANGED << ws, close_code, is_connected_flag, next_command_id, futures,
                    receive_task, enabled_domains, inbox, disc, reconnect,
                    connect_call, unsubscribe_call, refused, netVars, emitted, ready,
                    output_path, level_filter, buffer, disk, stdout, console_msgs >>

\* self._ws.send raised for the command of start(): the exception leaves
\* execute_command (connection.py lines 206-223) and start().
StartSendFails ==
    LET id == lifecycle.cmd IN
    /\ lifecycle.start = "awaiting"
    /\ calls[id].pc = "sending"
    /\ ws # "OPEN"
    /\ calls' = [ calls EXCEPT ![id].pc = "done",
                    ![id].outcome = Outcome("websockets.ConnectionClosed",
                                            NoPayload, 0, NoMethod, 0) ]
    /\ pending_commands' = PopPending(pending_commands, id)
    /\ StartAfter("websockets.ConnectionClosed")
    /\ UNCHANGED << ws, close_code, is_connected_flag, next_command_id, futures,
                    receive_task, enabled_domains, browser_cmds, inbox, disc,
                    reconnect, connect_call, unsubscribe_call, refused, netVars, emitted,
                    ready, awaiting, log, output_path, level_filter, buffer, disk,
                    stdout, console_msgs >>

\* The future of the command of start() is done: execute_command returns or
\* raises (connection.py lines 212-223) and start() goes on or ends with it.
StartResumes ==
    LET id == lifecycle.cmd IN
    /\ lifecycle.start = "awaiting"
    /\ calls[id].pc = "waiting"
    /\ Done(futures[id])
    /\ FinishCall(id)
    /\ StartAfter(OutcomeOf(futures[id], calls[id].method, calls[id].timeout).kind)
    /\ UNCHANGED << ws, close_code, is_connected_flag, next_command_id, futures,
                    receive_task, enabled_domains, browser_cmds, inbox, disc,
                    reconnect, connect_call, unsubscribe_call, refused, netVars, emitted,
                    ready, output_path, level_filter, buffer, disk, stdout,
                    console_msgs >>

\* For comparison: an unsubscribe that forgets every handler of the event.
RemoveEveryHandler(handlers, e, h) ==
    IF e \in DOMAIN handlers THEN [ handlers EXCEPT ![e] = << >> ] ELSE handlers

\* unsubscribe(event_name, callback) (connection.py lines 245-261) as a
\* function of the handlers.
RemoveHandler(handlers, e, h) ==
    IF e \in DOMAIN handlers THEN [ handlers EXCEPT ![e] = ListRemove(@, h) ]
    ELSE handlers

\* stop() (console.py lines 103-124) on the connection, as one segment: the
\* flag is cleared, the flush task, if there is one, is cancelled, the buffer
\* is flushed a last time and the handler is unsubscribed; none of these
\* raises.
StopEffects ==
    /\ running' = FALSE
    /\ flush_task' = IF flush_task = "None" THEN "None" ELSE "cancelled"
    /\ FlushToDisk
    /\ event_handlers' = RemoveHandler(event_handlers, "Console.messageAdded",
                                       "_on_message")
    /\ unsubscribe_call' =
          [ n |-> unsubscribe_call.n + 1, event |-> "Console.messageAdded",
            handler |-> "_on_message",
            found |-> ( "Console.messageAdded" \in DOMAIN event_handlers
                        /\ Positions(event_handlers["Console.messageAdded"],
                                     "_on_message") # {} ),
            outcome |-> "returned" ]

\* stop() of a collector whose start() is not under way.
StopOnConnection ==
    /\ output_path # "unset"
    /\ lifecycle.start # "awaiting"
    /\ lifecycle.stop = "none"
    /\ StopEffects
    /\ lifecycle' = [ lifecycle EXCEPT !.stop = "returned" ]
    /\ UNCHANGED << ws, close_code, is_connected_flag, next_command_id,
                    pending_commands, futures, receive_task, enabled_domains, calls,
                    browser_cmds, inbox, disc, reconnect, connect_call, refused, netVars,
                    emitted, ready, awaiting, log, output_path, level_filter, stdout,
                    console_msgs >>

\* ------------------------------------------------ collector as a scoped block
\* How the block of "async with collector:" ends.
BlockEnds == { "returned", "raised" }

\* For comparison: an __aexit__ that stops the collector only when the
\* block ended without an exception.
ExitStopsOnReturn(how) == how = "returned"

\* __aexit__(exc_type, exc_val, exc_tb) awaits stop() whatever its arguments
\* are (console.py lines 214-216).
ExitStops(how) == TRUE

\* __aexit__ returns False (line 217): "async with" raises the exception of
\* the block again.
Propagated(how, suppress) ==
    IF how = "raised" /\ ~ suppress THEN "exception of the block" ELSE "nothing"

\* The block entered by __aenter__ (start() returned, lines 209-212) ends
\* and "async with" awaits __aexit__ (lines 214-217).
AExit ==
    \E how \in BlockEnds :
        /\ lifecycle.start = "returned"
        /\ lifecycle.stop = "none"
        /\ IF ExitStops(how)
           THEN /\ StopEffects
                /\ lifecycle' = [ lifecycle EXCEPT !.stop = "returned", !.block = how,
                                     !.propagated = Propagated(how, FALSE) ]
           ELSE /\ lifecycle' = [ lifecycle EXCEPT !.block = how,
                                     !.propagated = Propagated(how, FALSE) ]
                /\ UNCHANGED << running, flush_task, disk, buffer, event_handlers,
                                unsubscribe_call >>
        /\ UNCHANGED << ws, close_code, is_connected_flag, next_command_id,
                        pending_commands, futures, receive_task, enabled_domains, calls,
                        browser_cmds, inbox, disc, reconnect, connect_call, refused,
                        netVars, emitted, ready, awaiting, log, output_path,
                        level_filter, stdout, console_msgs >>

\* "await collector.start()" inside the block of "async with collector:"
\* (cli/console_cmd.py lines 63-64 and 96-97): start() is called on a
\* collector that __aenter__ has started already.  start() looks at nothing
\* before it sends Console.enable again (console.py lines 91-92); StartSent
\* and StartResumes then take it through lines 93-101 as they do the first
\* call.
StartAgain ==
    /\ lifecycle.start = "returned"
    /\ lifecycle.stop = "none"
    /\ ExecuteCommand(<< "Console", "enable" >>, << >>, << "start" >>)
    /\ lifecycle' = [ lifecycle EXCEPT !.start = "awaiting", !.cmd = next_command_id ]
    /\ UNCHANGED << ws, close_code, is_connected_flag, receive_task, browser_cmds,
                    inbox, disc, reconnect, connect_call, unsubscribe_call, refused,
                    eventVars, netVars, output_path, level_filter, buffer, running,
                    flush_task, disk, stdout, console_msgs >>

\* The task the receive loop made of _on_message for an event runs
\* (console.py lines 126-156): it looks at the filter and at the output
\* path, not at _running.  The messages of the events are errors, which
\* every filter lets through; the entry bears the number of its event as
\* its timestamp.
OnMessageTask ==
    /\ ready # << >>
    /\ Head(ready).handler = "_on_message"
    /\ ready' = Tail(ready)
    /\ log' = Append(log, Ended(Head(ready), "returned"))
    /\ LET entry == [ timestamp |-> Head(ready).ev, level |-> "error" ] IN
       IF level_filter # "None" /\ ~ ShouldCapture(level_filter, "error")
       THEN UNCHANGED << buffer, stdout >>
       ELSE IF output_path = "None"
            THEN /\ stdout' = Append(stdout, entry)
                 /\ UNCHANGED buffer
            ELSE /\ buffer' = DequeAppend(buffer, entry)
                 /\ UNCHANGED stdout
    /\ UNCHANGED << connVars, netVars, event_handlers, emitted, awaiting,
                    output_path, level_filter, running, flush_task, disk,
                    console_msgs, lifecycle >>

\* _periodic_flush() (console.py lines 177-186) when the write of
\* _flush_to_disk fails (mkdir, open or write of lines 198-204 raises
\* OSError; they run only with an output path and entries in the buffer):
\* nothing in _periodic_flush catches it, the task ends with the exception
\* and the buffer is not cleared.
PeriodicFlushFails ==
    /\ flush_task = "sleeping"
    /\ running
    /\ output_path = "file"
    /\ buffer # << >>
    /\ flush_task' = "failed"
    /\ UNCHANGED << connVars, eventVars, netVars, lifecycle, output_path,
                    level_filter, running, buffer, disk, stdout, console_msgs >>

\* stop() (console.py lines 103-124; network.py lines 135-161 is the same
\* code) with writes that can fail.  "await self._flush_task" (line 115) on
\* a task that has ended with OSError raises that exception, which is not
\* the CancelledError stop() catches; the OSError of the last flush (line
\* 121) leaves stop() too.  Either way stop() ends before line 124.
StopWithWriteErrors ==
    \E write \in { "written", "OSError" } :
        /\ lifecycle.start = "returned"
        /\ lifecycle.stop = "none"
        /\ IF flush_task = "failed"
           THEN /\ running' = FALSE
                /\ lifecycle' = [ lifecycle EXCEPT !.stop = "raised" ]
                /\ UNCHANGED << flush_task, disk, buffer, event_handlers,
                                unsubscribe_call >>
           ELSE IF write = "OSError" /\ output_path = "file" /\ buffer # << >>
                THEN /\ running' = FALSE
                     /\ flush_task' = IF flush_task = "None" THEN "None"
                                      ELSE "cancelled"
                     /\ lifecycle' = [ lifecycle EXCEPT !.stop = "raised" ]
                     /\ UNCHANGED << disk, buffer, event_handlers, unsubscribe_call >>
                ELSE /\ StopEffects
                     /\ lifecycle' = [ lifecycle EXCEPT !.stop = "returned" ]
        /\ UNCHANGED << ws, close_code, is_connected_flag, next_command_id,
                        pending_commands, futures, receive_task, enabled_domains, calls,
                        browser_cmds, inbox, disc, reconnect, connect_call, refused,
                        netVars, emitted, ready, awaiting, log, output_path,
                        level_filter, stdout, console_msgs >>

\* ------------------------------------------- stop() and the tasks around it
\* stop() up to "await self._flush_task" (console.py lines 109-117): the flag
\* is cleared and the flush task cancelled; stop() is suspended until the
\* cancelled task has ended.  Without a flush task nothing is awaited and
\* stop() goes on to its end (lines 119-124).
StopBegins ==
    /\ running
    /\ lifecycle.stop = "none"
    /\ running' = FALSE
    /\ IF flush_task = "sleeping"
       THEN /\ flush_task' = "cancelled"
            /\ lifecycle' = [ lifecycle EXCEPT !.stop = "awaiting" ]
            /\ UNCHANGED << disk, buffer >>
       ELSE /\ FlushToDisk
            /\ lifecycle' = [ lifecycle EXCEPT !.stop = "returned" ]
            /\ UNCHANGED flush_task
    /\ UNCHANGED << connVars, eventVars, netVars, output_path, level_filter, stdout,
                    console_msgs >>

\* stop() after the await (console.py lines 118-124): the last flush.
StopFinishes ==
    /\ lifecycle.stop = "awaiting"
    /\ FlushToDisk
    /\ lifecycle' = [ lifecycle EXCEPT !.stop = "returned" ]
    /\ UNCHANGED << connVars, eventVars, netVars, output_path, level_filter, running,
                    flush_task, stdout, console_msgs >>

\* _on_message(params) (console.py lines 126-156) run by a handler task that
\* the receive loop made before stop() unsubscribed and that the event loop
\* starts while stop() is suspended or after it has returned: _on_message
\* does not look at _running.
OnMessageLate ==
    \E level \in MsgLevels :
        /\ lifecycle.stop \in { "awaiting", "returned" }
        /\ Len(console_msgs) < MaxMessages
        /\ console_msgs' = Append(console_msgs, level)
        /\ LET entry == [ timestamp |-> Len(console_msgs) + 1, level |-> level ] IN
           IF level_filter # "None" /\ ~ ShouldCapture(level_filter, level)
           THEN UNCHANGED << buffer, stdout >>
           ELSE IF output_path = "None"
                THEN /\ stdout' = Append(stdout, entry)
                     /\ UNCHANGED buffer
                ELSE /\ buffer' = DequeAppend(buffer, entry)
                     /\ UNCHANGED stdout
        /\ UNCHANGED << connVars, eventVars, netVars, lifecycle, output_path,
                        level_filter, running, flush_task, disk >>

\* ------------------------------------------------------- network collector
\* The handlers of a NetworkCollector without body capture, called with the
\* params of the events delivered to it; each runs without awaiting.

\* The request data an entry is built from is the stored one
\* (self._requests.get(request_id, default_request)), or the default.
Matched(id) == id # NoRequestId /\ id \in requests

\* For comparison: handlers of the closing events that leave the request
\* stored.
PopRequestNever(reqs, id) == reqs

\* if request_id is not None: self._requests.pop(request_id, None)
\* (network.py lines 253-254 and 292-293)
PopRequest(reqs, id) == IF id # NoRequestId THEN reqs \ { id } ELSE reqs

\* request.get("method", "") of an opening event (line 179): the requests
\* followed are POSTs, so that what is stored differs from the default.
RequestMethods == { "POST" }

\* For comparison: an entry that takes the default method whatever is
\* stored.
EntryMethodDefault(id) == "GET"

\* str(request_data.get("method", "GET")) (lines 205 and 278): the method
\* stored under the id, or that of default_request.
EntryMethod(id) == IF Matched(id) THEN stored_method[id] ELSE "GET"

\* The methods stored once the keys are reqs.
KeepStored(reqs) ==
    stored_method' = [ id \in RequestIds |->
                         IF id \in reqs THEN stored_method[id] ELSE "none" ]

\* The last lifecycle event delivered for the id.
Delivered(id, what) ==
    txn' = IF id = NoRequestId THEN txn ELSE [ txn EXCEPT ![id] = what ]

\* _on_request(params) (lines 163-183)
OnRequest ==
    \E id \in RequestIdArgs, method \in RequestMethods :
        /\ Len(net_entries) < MaxNetEvents
        /\ requests' = IF id # NoRequestId THEN requests \cup { id } ELSE requests
        /\ stored_method' = IF id # NoRequestId
                            THEN [ stored_method EXCEPT ![id] = method ]
                            ELSE stored_method
        /\ Delivered(id, "open")
        /\ UNCHANGED << connVars, eventVars, collVars, net_entries >>

\* _on_response(params) with include_bodies False (lines 185-240)
OnResponse ==
    \E id \in RequestIdArgs :
        /\ Len(net_entries) < MaxNetEvents
        /\ net_entries' = Append(net_entries,
                                  [ requestId |-> id, statusText |-> "response",
                                    matched |-> Matched(id),
                                    method |-> EntryMethod(id) ])
        /\ UNCHANGED << connVars, eventVars, collVars, requests, stored_method, txn >>

\* _on_loading_finished(params) (lines 242-254)
OnLoadingFinished ==
    \E id \in RequestIdArgs :
        /\ requests' = PopRequest(requests, id)
        /\ KeepStored(PopRequest(requests, id))
        /\ Delivered(id, "closed")
        /\ UNCHANGED << connVars, eventVars, collVars, net_entries >>

\* _on_loading_failed(params) (lines 256-293)
OnLoadingFailed ==
    \E id \in RequestIdArgs :
        /\ Len(net_entries) < MaxNetEvents
        /\ net_entries' = Append(net_entries,
                                  [ requestId |-> id, statusText |-> "FAILED",
                                    matched |-> Matched(id),
                                    method |-> EntryMethod(id) ])
        /\ requests' = PopRequest(requests, id)
        /\ KeepStored(PopRequest(requests, id))
        /\ Delivered(id, "closed")
        /\ UNCHANGED << connVars, eventVars, collVars >>

\* ------------------------------------------------------------------- Next
\* The connection, its commands and its lifecycle.
Next ==
    \/ Connect
    \/ Execute
    \/ SendDone
    \/ SendFails
    \/ Timeout
    \/ Resume
    \/ BrowserResult
    \/ BrowserError
    \/ TransportCloses
    \/ RecvResponse
    \/ LoopConnectionClosed
    \/ LoopIteratorEnds
    \/ Disconnect
    \/ DisconnectTaskAwaited
    \/ DisconnectClosed

Spec == Init /\ [][Next]_vars

\* The same, with the caller reconnecting after a drop or a disconnect().
NextReconnect ==
    \/ Next
    \/ ReconnectWithBackoff

SpecReconnect == Init /\ [][NextReconnect]_vars

\* A connected connection, the test's two handlers and the events it
\* dispatches to them, with commands evaluated meanwhile.
NextEvents ==
    \/ Connect
    \/ SubscribeTestHandler
    \/ ConsoleEvent
    \/ RecvEvent
    \/ GoodHandlerRuns
    \/ FailingHandlerRaises
    \/ Evaluate
    \/ SendDone
    \/ Resume
    \/ BrowserResult
    \/ RecvResponse

SpecEvents == Init /\ [][NextEvents]_vars

\* A connected connection and a network collector that fetches bodies from
\* its response handler, with commands evaluated meanwhile, for as long as no
\* command timeout has elapsed.
NextFetch ==
    \/ Connect
    \/ SubscribeOnResponse
    \/ ResponseEvent
    \/ RecvEvent
    \/ OnResponseFetches
    \/ Evaluate
    \/ SendDone
    \/ Resume
    \/ BrowserResult
    \/ RecvResponse

SpecFetch == Init /\ [][NextFetch]_vars

\* The event loop resumes every task that can go on: the receive task takes
\* a message that has arrived, a handler task that was created is started, a
\* caller whose send is through or whose future is done continues.  The
\* browser owes nothing.
LiveFetch ==
    /\ SpecFetch
    /\ WF_vars(RecvResponse)
    /\ WF_vars(RecvEvent)
    /\ WF_vars(OnResponseFetches)
    /\ WF_vars(SendDone)
    /\ WF_vars(Resume)

\* A console collector on the tests' mock connection.
NextCollector ==
    \/ ConsoleCollectorInit
    \/ CollectorStart
    \/ OnMessage
    \/ PeriodicFlush
    \/ CollectorStop

SpecCollector == Init /\ [][NextCollector]_vars

\* A network collector and the events of the requests it follows.
\* connect() in every state a caller can make it from, succeeding or
\* failing, around the life of one command.
NextConnect ==
    \/ Connect
    \/ ConnectWhileConnected
    \/ ConnectFails
    \/ Execute
    \/ SendDone
    \/ Resume
    \/ BrowserResult
    \/ TransportCloses
    \/ RecvResponse
    \/ LoopConnectionClosed
    \/ LoopIteratorEnds
    \/ Disconnect
    \/ DisconnectTaskAwaited
    \/ DisconnectClosed

SpecConnect == Init /\ [][NextConnect]_vars

\* subscribe and unsubscribe in any order on a connection that has commands
\* pending and a domain enabled.
NextSubscribe ==
    \/ Connect
    \/ EnableConsole
    \/ SubscribeAny
    \/ Unsubscribe

SpecSubscribe == Init /\ [][NextSubscribe]_vars

\* Handlers are registered and events dispatched while the connection is
\* lost, by the peer or by disconnect(), and made again.
NextSurvive ==
    \/ Connect
    \/ SubscribeTestHandler
    \/ ConsoleEvent
    \/ RecvEvent
    \/ GoodHandlerRuns
    \/ FailingHandlerRaises
    \/ TransportCloses
    \/ LoopConnectionClosed
    \/ LoopIteratorEnds
    \/ Disconnect
    \/ DisconnectTaskAwaited
    \/ DisconnectClosed

SpecSurvive == Init /\ [][NextSurvive]_vars

\* A connected connection on which frames that are no CDP message arrive
\* among the responses and the events, up to the resolution of the commands.
NextMalformed ==
    \/ Connect
    \/ SubscribeGoodHandler
    \/ Evaluate
    \/ SendDone
    \/ BrowserResult
    \/ BrowserSendsMalformed
    \/ ConsoleEvent
    \/ RecvResponse
    \/ RecvEvent
    \/ RecvMalformed

SpecMalformed == Init /\ [][NextMalformed]_vars

\* The event loop resumes the receive task whenever a message has arrived.
LiveMalformed ==
    /\ SpecMalformed
    /\ WF_vars(RecvResponse)
    /\ WF_vars(RecvEvent)
    /\ WF_vars(RecvMalformed)

\* Commands on a connected connection whose peer also sends responses that
\* answer nothing: repeated ones and ones with an unknown id.
NextStray ==
    \/ Connect
    \/ Evaluate
    \/ SendDone
    \/ Timeout
    \/ Resume
    \/ BrowserResult
    \/ BrowserError
    \/ BrowserDuplicates
    \/ BrowserUnknownId
    \/ RecvResponse

SpecStray == Init /\ [][NextStray]_vars

\* A console collector started and stopped on a connection whose enable
\* command can succeed, fail, time out or be cut by the loss of the socket.
NextStart ==
    \/ ConsoleCollectorInit
    \/ Connect
    \/ SubscribeGoodHandler
    \/ StartEnables
    \/ StartNotConnected
    \/ StartSent
    \/ StartSendFails
    \/ StartResumes
    \/ Timeout
    \/ BrowserResult
    \/ BrowserError
    \/ TransportCloses
    \/ RecvResponse
    \/ LoopConnectionClosed
    \/ LoopIteratorEnds
    \/ StopOnConnection

SpecStart == Init /\ [][NextStart]_vars

\* ---------------------------------------- network collector, body capture
\* What int() makes of a decimal digit.
DigitValue ==
    ("0" :> 0) @@ ("1" :> 1) @@ ("2" :> 2) @@ ("3" :> 3) @@ ("4" :> 4) @@
    ("5" :> 5) @@ ("6" :> 6) @@ ("7" :> 7) @@ ("8" :> 8) @@ ("9" :> 9)

\* int(s) of a header value, given as its characters: the number written in
\* decimal digits, and ValueError for anything else (network.py line 308).
IsDecimal(s) == s # << >> /\ \A i \in 1..Len(s) : s[i] \in DOMAIN DigitValue

RECURSIVE IntOf(_)
IntOf(s) ==
    IF s = << >> THEN 0
    ELSE 10 * IntOf(SubSeq(s, 1, Len(s) - 1)) + DigitValue[s[Len(s)]]

\* headers.get("Content-Length", headers.get("content-length")) (line 307):
\* no such header or an empty one (both false for the "if"), a length within
\* max_body_size, one over it, and values a server can send that are no
\* number.
ContentLengths ==
    { << >>, << "0" >>, << "1", "0" >>, << "a", "b", "c" >>, << "5", ",", "5" >> }

\* response.get("mimeType", "").lower() (line 312), as type and subtype;
\* << >> is the empty string.
MimeTypes == { << >>, << "text", "html" >>, << "image", "png" >>, << "font", "woff2" >> }

\* _should_capture_body(response) (lines 295-316): "True", "False", or the
\* exception int() raises.
ShouldCaptureBody(content_length, mime_type) ==
    IF content_length # << >> /\ ~ IsDecimal(content_length) THEN "ValueError"
    ELSE IF content_length # << >> /\ IntOf(content_length) > max_body_size
         THEN "False"
    ELSE IF mime_type # << >> /\ mime_type[1] \in { "image", "video", "audio", "font" }
         THEN "False"
    ELSE "True"

\* The entry built before the body is looked at (lines 202-215), with the
\* request data stored at that moment.
BaseEntry(id) ==
    [ requestId |-> id, statusText |-> "response", matched |-> Matched(id),
      method |-> EntryMethod(id), keys |-> {}, body |-> << >>,
      base64Encoded |-> FALSE ]

\* A text of n characters.
BodyOfLen(n) == [ i \in 1..n |-> "x" ]

\* What Network.getResponseBody can return: a result without "body", with
\* an empty one, with a body up to max_body_size or over it, with or
\* without "base64Encoded".
BodyResults ==
    { [ keys |-> {}, body |-> << >>, base64Encoded |-> FALSE ] } \cup
    { [ keys |-> { "body" } \cup k, body |-> BodyOfLen(n), base64Encoded |-> b ] :
        k \in { {}, { "base64Encoded" } }, n \in { 0, max_body_size, max_body_size + 1 },
        b \in BOOLEAN }

\* body_result.get("base64Encoded", False) (line 229)
Base64Encoded(r) == IF "base64Encoded" \in r.keys THEN r.base64Encoded ELSE FALSE

\* Lines 224-229: a body that is there and not longer than max_body_size is
\* put into the entry as it is, with its encoding flag.
AttachBody(entry, r) ==
    IF "body" \in r.keys /\ r.body # << >> /\ Len(r.body) <= max_body_size
    THEN [ entry EXCEPT !.keys = { "body", "base64Encoded" },
                        !.body = r.body,
                        !.base64Encoded = Base64Encoded(r) ]
    ELSE entry

\* What execute_command raises (connection.py lines 183-223): the browser's
\* error, the timeout, the connection closed before or while the command
\* waits, and the exception of a send on a closed socket.
FetchErrors ==
    { "CommandFailedError", "CDPTimeoutError", "ConnectionClosedError",
      "websockets.ConnectionClosed" }

\* The handler calls begun so far.
ResponsesBegun == Len(log) + Cardinality(awaiting)

\* Lines 232-238: the entry is printed or appended to the buffer, and the
\* handler returns.
ProduceEntry(n, entry) ==
    /\ net_entries' = Append(net_entries, entry)
    /\ log' = Append(log, [ ev |-> n, pos |-> 1, handler |-> "_on_response",
                            how |-> "returned" ])

\* _on_response(params) with include_bodies True, from its entry to its
\* first await or, without one, to its end (lines 185-240).  The call of
\* _should_capture_body (line 218) is outside the try: its exception ends the
\* handler.  A skipped body, and an execute_command refused because the
\* connection is not connected (the exception is raised inside the try,
\* before any await), leave the entry as built.
OnResponseBodies ==
    \E id \in RequestIdArgs, content_length \in ContentLengths,
       mime_type \in MimeTypes, connected \in BOOLEAN :
        /\ ResponsesBegun < MaxResponses
        /\ LET n == ResponsesBegun + 1
               capture == ShouldCaptureBody(content_length, mime_type)
           IN CASE capture = "ValueError" ->
                     /\ log' = Append(log, [ ev |-> n, pos |-> 1,
                                             handler |-> "_on_response",
                                             how |-> "raised" ])
                     /\ UNCHANGED << net_entries, awaiting >>
                [] capture = "False" \/ (capture = "True" /\ ~ connected) ->
                     /\ ProduceEntry(n, BaseEntry(id))
                     /\ UNCHANGED awaiting
                [] capture = "True" /\ connected ->
                     /\ awaiting' = awaiting \cup
                                      { [ ev |-> n, pos |-> 1, cmd |-> 0,
                                          entry |-> BaseEntry(id) ] }
                     /\ UNCHANGED << net_entries, log >>
        /\ UNCHANGED << connVars, collVars, requests, stored_method, txn, event_handlers, emitted,
                        ready >>

\* execute_command returns the result of Network.getResponseBody and the
\* handler goes on to its end (lines 221-238).
FetchReturns ==
    \E t \in awaiting, r \in BodyResults :
        /\ awaiting' = awaiting \ { t }
        /\ ProduceEntry(t.ev, AttachBody(t.entry, r))
        /\ UNCHANGED << connVars, collVars, requests, stored_method, txn, event_handlers, emitted,
                        ready >>

\* execute_command raises; "except Exception: pass" (lines 230-232) and the
\* handler goes on to its end.
FetchRaises ==
    \E t \in awaiting, e \in FetchErrors :
        /\ awaiting' = awaiting \ { t }
        /\ ProduceEntry(t.ev, t.entry)
        /\ UNCHANGED << connVars, collVars, requests, stored_method, txn, event_handlers, emitted,
                        ready >>

\* ----------------------------------------- network collector with a file
\* NetworkCollector(connection, output_path, include_bodies=True)
\* (network.py lines 84-108) with an output path.  The connection is the
\* tests' mock: subscribe and unsubscribe on it change nothing here.
NetworkCollectorInit ==
    /\ output_path = "unset"
    /\ output_path' = "file"
    /\ buffer' = << >>
    /\ flush_task' = "None"
    /\ running' = FALSE
    /\ UNCHANGED << connVars, eventVars, netVars, lifecycle, level_filter, disk,
                    stdout, console_msgs >>

\* start() (network.py lines 110-133): Network.enable has returned, the four
\* handlers are subscribed, _running is set and, the output path being
\* there, the flush task is created.
NetworkStart ==
    /\ output_path = "file"
    /\ lifecycle.start = "none"
    /\ running' = TRUE
    /\ flush_task' = "sleeping"
    /\ lifecycle' = [ lifecycle EXCEPT !.start = "returned" ]
    /\ UNCHANGED << connVars, eventVars, netVars, output_path, level_filter, buffer,
                    disk, stdout, console_msgs >>

\* Lines 232-238 with an output path: the entry is appended to the buffer
\* and the handler returns.
BufferEntry(n, entry) ==
    /\ buffer' = DequeAppend(buffer, entry)
    /\ net_entries' = Append(net_entries, entry)
    /\ log' = Append(log, [ ev |-> n, pos |-> 1, handler |-> "_on_response",
                            how |-> "returned" ])

\* The task the receive loop made of _on_response (connection.py lines
\* 304-309) while the collector was subscribed runs from its entry to its
\* first await or, without one, to its end (network.py lines 185-240).
IntakeBegins ==
    \E id \in RequestIdArgs, content_length \in ContentLengths,
       mime_type \in MimeTypes :
        /\ lifecycle.start = "returned"
        /\ lifecycle.stop = "none"
        /\ ResponsesBegun < MaxResponses
        /\ LET n == ResponsesBegun + 1
               capture == ShouldCaptureBody(content_length, mime_type)
           IN CASE capture = "ValueError" ->
                     /\ log' = Append(log, [ ev |-> n, pos |-> 1,
                                             handler |-> "_on_response",
                                             how |-> "raised" ])
                     /\ UNCHANGED << net_entries, awaiting, buffer >>
                [] capture = "False" ->
                     /\ BufferEntry(n, BaseEntry(id))
                     /\ UNCHANGED awaiting
                [] capture = "True" ->
                     /\ awaiting' = awaiting \cup
                                      { [ ev |-> n, pos |-> 1, cmd |-> 0,
                                          entry |-> BaseEntry(id) ] }
                     /\ UNCHANGED << net_entries, log, buffer >>
        /\ UNCHANGED << connVars, requests, stored_method, txn, event_handlers,
                        emitted, ready, output_path, level_filter, running,
                        flush_task, disk, stdout, console_msgs, lifecycle >>

\* For comparison: a handler that, resumed after stop() was called, drops
\* its entry.
IntakeAppendsWhileRunning(t, entry) ==
    IF running THEN BufferEntry(t.ev, entry)
    ELSE /\ log' = Append(log, [ ev |-> t.ev, pos |-> 1, handler |-> "_on_response",
                                 how |-> "returned" ])
         /\ UNCHANGED << buffer, net_entries >>

\* The handler after its await (lines 224-238): nothing there looks at
\* _running or at the subscription.
IntakeAppends(t, entry) == BufferEntry(t.ev, entry)

\* execute_command returns the result of Network.getResponseBody, or raises
\* and "except Exception: pass" (lines 221-232); the handler goes on to its
\* end, whatever stop() has done meanwhile.
IntakeEnds ==
    \E t \in awaiting :
        /\ awaiting' = awaiting \ { t }
        /\ \/ \E r \in BodyResults : IntakeAppends(t, AttachBody(t.entry, r))
           \/ IntakeAppends(t, t.entry)
        /\ UNCHANGED << connVars, requests, stored_method, txn, event_handlers,
                        emitted, ready, output_path, level_filter, running,
                        flush_task, disk, stdout, console_msgs, lifecycle >>

\* _periodic_flush() (network.py lines 318-327): the sleep is over, the
\* buffer is flushed with _flush_to_disk (lines 329-348, the code of the
\* console collector's) and the task sleeps again.
NetworkPeriodicFlush ==
    /\ flush_task = "sleeping"
    /\ running
    /\ FlushToDisk
    /\ UNCHANGED << connVars, eventVars, netVars, lifecycle, output_path,
                    level_filter, running, flush_task, stdout, console_msgs >>

\* stop() up to "await self._flush_task" (network.py lines 141-149): the
\* flag is cleared, the flush task is cancelled and stop() is suspended
\* until the task has ended.
NetworkStopBegins ==
    /\ lifecycle.start = "returned"
    /\ lifecycle.stop = "none"
    /\ running' = FALSE
    /\ flush_task' = "cancelled"
    /\ lifecycle' = [ lifecycle EXCEPT !.stop = "awaiting" ]
    /\ UNCHANGED << connVars, eventVars, netVars, output_path, level_filter, buffer,
                    disk, stdout, console_msgs >>

\* stop() after the await (lines 150-161): the last flush, and the four
\* handlers are unsubscribed.
NetworkStopFinishes ==
    /\ lifecycle.stop = "awaiting"
    /\ FlushToDisk
    /\ lifecycle' = [ lifecycle EXCEPT !.stop = "returned" ]
    /\ UNCHANGED << connVars, eventVars, netVars, output_path, level_filter, running,
                    flush_task, stdout, console_msgs >>

\* A network collector that writes to a file and fetches bodies, stopped
\* while handler tasks of its responses are under way.
NextLate ==
    \/ NetworkCollectorInit
    \/ NetworkStart
    \/ IntakeBegins
    \/ IntakeEnds
    \/ NetworkPeriodicFlush
    \/ NetworkStopBegins
    \/ NetworkStopFinishes

SpecLate == Init /\ [][NextLate]_vars

\* A network collector with include_bodies, its handlers called with the
\* events of a page.
NextBodies ==
    \/ OnRequest
    \/ OnResponseBodies
    \/ FetchReturns
    \/ FetchRaises

SpecBodies == Init /\ [][NextBodies]_vars

\* Domains turned on and off on a connection that is lost, disconnected and
\* connected again, with commands that the browser rejects and commands that
\* time out.
NextDomains ==
    \/ Connect
    \/ ExecuteDomainCommand
    \/ SendDone
    \/ Timeout
    \/ Resume
    \/ BrowserError
    \/ TransportCloses
    \/ RecvResponse
    \/ LoopConnectionClosed
    \/ LoopIteratorEnds
    \/ Disconnect
    \/ DisconnectTaskAwaited
    \/ DisconnectClosed

SpecDomains == Init /\ [][NextDomains]_vars

\* A console collector used as "async with collector:" on a connection,
\* with console messages handed to it inside the block.
NextScope ==
    \/ ConsoleCollectorInit
    \/ Connect
    \/ StartEnables
    \/ StartNotConnected
    \/ StartSent
    \/ StartResumes
    \/ BrowserResult
    \/ BrowserError
    \/ RecvResponse
    \/ OnMessage
    \/ PeriodicFlush
    \/ AExit

SpecScope == Init /\ [][NextScope]_vars

\* One handler, the events it is subscribed to and commands, their
\* responses arriving between the events.
NextOrder ==
    \/ Connect
    \/ SubscribeGoodHandler
    \/ ConsoleEvent
    \/ RecvEvent
    \/ GoodHandlerRuns
    \/ Evaluate
    \/ SendDone
    \/ BrowserResult
    \/ RecvResponse
    \/ Resume

SpecOrder == Init /\ [][NextOrder]_vars

\* Callbacks registered for two event names on a connected connection, while
\* events of both names arrive and are dispatched.
NextDispatch ==
    \/ Connect
    \/ SubscribeConnected
    \/ ConsoleEvent
    \/ ResponseEvent
    \/ RecvEvent
    \/ CallbackRuns

SpecDispatch == Init /\ [][NextDispatch]_vars

\* Commands of every kind of method on a connected connection.
NextTrack ==
    \/ Connect
    \/ ExecuteMethod
    \/ SendDone

SpecTrack == Init /\ [][NextTrack]_vars

\* A connection that is used before it is connected, after its socket has
\* ended and after disconnect().
NextRefuse ==
    \/ Connect
    \/ Evaluate
    \/ SendDone
    \/ BrowserResult
    \/ RecvResponse
    \/ Resume
    \/ TransportCloses
    \/ LoopConnectionClosed
    \/ LoopIteratorEnds
    \/ Disconnect
    \/ DisconnectTaskAwaited
    \/ DisconnectClosed
    \/ ExecuteNotConnected

SpecRefuse == Init /\ [][NextRefuse]_vars

\* The console stream command: inside "async with conn:" the collector is
\* entered with "async with collector:", started again and stopped, while
\* the browser emits console events.
NextRestart ==
    \/ ConsoleCollectorInit
    \/ Connect
    \/ StartEnables
    \/ StartAgain
    \/ StartSent
    \/ StartResumes
    \/ BrowserResult
    \/ RecvResponse
    \/ ConsoleEvent
    \/ RecvEvent
    \/ OnMessageTask
    \/ PeriodicFlush
    \/ StopOnConnection

SpecRestart == Init /\ [][NextRestart]_vars

\* A console collector on a connection whose file cannot always be
\* written: started, given messages, flushed and stopped.
NextWriteErrors ==
    \/ ConsoleCollectorInit
    \/ Connect
    \/ StartEnables
    \/ StartSent
    \/ StartResumes
    \/ BrowserResult
    \/ RecvResponse
    \/ OnMessage
    \/ PeriodicFlush
    \/ PeriodicFlushFails
    \/ StopWithWriteErrors

SpecWriteErrors == Init /\ [][NextWriteErrors]_vars

\* A console collector whose handler tasks, flush task and stop() take
\* turns at every await.
NextInterleave ==
    \/ ConsoleCollectorInit
    \/ CollectorStart
    \/ OnMessage
    \/ PeriodicFlush
    \/ StopBegins
    \/ StopFinishes
    \/ OnMessageLate

SpecInterleave == Init /\ [][NextInterleave]_vars

NextNetwork ==
    \/ OnRequest
    \/ OnResponse
    \/ OnLoadingFinished
    \/ OnLoadingFailed

SpecNetwork == Init /\ [][NextNetwork]_vars

\* ================================================================= claims

\* The message the receive loop is about to take is a response.
HeadIsResponse == inbox # << >> /\ "id" \in Head(inbox).keys

\* A step by which the receive loop consumes a response.
ResponseStep == LoopReads /\ HeadIsResponse /\ inbox' = Tail(inbox)

IsClosedError(f) == f.state = "EXC" /\ f.value.kind = "ConnectionClosedError"

\* ---- C1
\* C1: a command is resolved only by the response that bears its own
\* identifier: whatever order the responses arrive in, the result a caller
\* gets is the result the browser computed for that very command, and the
\* loop's handling of one response changes the future of no other command.
C1_ResultIsOwn ==
    \A id \in CmdIds :
        /\ futures[id].state = "RESULT" => futures[id].value.payload = ResultOf(id)
        /\ calls[id].outcome.kind = "result" => calls[id].outcome.payload = ResultOf(id)

C1_OnlyOwnFuture ==
    ResponseStep =>
        \A id \in CmdIds : id # Head(inbox).id => futures'[id] = futures[id]

C1_ResponseMatchedById == [] C1_ResultIsOwn /\ [][C1_OnlyOwnFuture]_vars

\* The second command has its result while the first, issued before it, is
\* still waiting for its own.
C1_OutOfOrder ==
    /\ calls[1].pc = "waiting"
    /\ futures[1].state = "PENDING"
    /\ calls[2].pc = "done"
    /\ calls[2].outcome.kind = "result"

\* ---- C2
\* C2: a command that gets no response within its timeout fails with
\* CDPTimeoutError naming its own method and the timeout that applied (the
\* argument, or the connection's default), and its id is no longer
\* registered; a response for that id that arrives afterwards is read and
\* ignored: it changes no command and the receive loop carries on.
C2_TimedOut(id) == calls[id].pc = "done" /\ calls[id].outcome.kind = "CDPTimeoutError"

C2_TimeoutOutcome ==
    \A id \in CmdIds :
        /\ calls[id].pc = "done" /\ futures[id].state = "CANCELLED" => C2_TimedOut(id)
        /\ C2_TimedOut(id) =>
              /\ id \notin pending_commands
              /\ calls[id].outcome.method = calls[id].method
              /\ calls[id].outcome.timeout =
                    (IF calls[id].timeout = << >> THEN self_timeout
                     ELSE calls[id].timeout[1])

C2_LateResponseIgnored ==
    ResponseStep /\ futures[Head(inbox).id].state = "CANCELLED" =>
        /\ UNCHANGED << futures, pending_commands, is_connected_flag, enabled_domains >>
        /\ \A id \in CmdIds : calls'[id].outcome = calls[id].outcome
        /\ receive_task' = "running"

C2_TimeoutThenLateResponse ==
    [] C2_TimeoutOutcome /\ [][C2_LateResponseIgnored]_vars

\* A command has failed with its timeout and the response for it is the next
\* message the running loop takes.
C2_LateResponseArrives ==
    /\ LoopReads
    /\ HeadIsResponse
    /\ C2_TimedOut(Head(inbox).id)

\* ---- C3
\* C3: when the receive loop has ended because the transport closed,
\* gracefully or not, the connection reports itself not connected and no
\* command is left waiting: every command that was pending has been resolved
\* (with ConnectionClosedError), none is left to run into its timeout.
C3_ClosureFailsPending ==
    receive_task = "done" =>
        /\ ~ is_connected
        /\ \A id \in pending_commands : futures[id].state # "PENDING"

\* ---- C4
\* C4: from the call of disconnect() to its return, a command that is
\* pending is resolved by nothing but ConnectionClosedError, and at the
\* return the receive loop does not run, every command that was still
\* pending has that error and no id is registered.
C4_DuringDisconnect ==
    /\ disc \in { "await_task", "closing" } =>
          \A id \in CmdIds :
              futures[id].state = "PENDING" =>
                  futures'[id].state = "PENDING" \/ IsClosedError(futures'[id])
    /\ disc # "returned" /\ disc' = "returned" =>
          /\ receive_task' # "running"
          /\ pending_commands' = {}
          /\ \A id \in CmdIds :
                futures[id].state = "PENDING" => IsClosedError(futures'[id])

C4_DisconnectFailsPending == [][C4_DuringDisconnect]_vars

\* ---- C6
\* C6: a domain is in the enabled set only if an ".enable" command for it
\* has succeeded.
C6_EnabledOnlyOnSuccess ==
    \A d \in enabled_domains :
        \E id \in CmdIds :
            /\ calls[id].method = << d, "enable" >>
            /\ futures[id].state = "RESULT"

\* ---- C5
\* C5: the failure of a handler touches nothing but its own task.  Every
\* event the loop reads is handed to every handler registered for it, in
\* registration order, whatever handlers failed before; the step by which a
\* handler fails leaves the connection and the tasks queued behind it as they
\* were; the loop keeps running and a response read afterwards still resolves
\* its command.
C5_SomeHandlerFailed == \E i \in 1..Len(log) : log[i].how = "raised"

C5_EventStep ==
    /\ LoopReads
    /\ ~ HeadIsResponse
    /\ inbox' = Tail(inbox)

C5_Isolation ==
    /\ C5_EventStep =>
          LET h == HandlersFor(Head(inbox).method) IN
          /\ Len(ready') = Len(ready) + Len(h)
          /\ \A i \in 1..Len(h) :
                ready'[Len(ready) + i] =
                    [ ev |-> Head(inbox).params, pos |-> i, handler |-> h[i] ]
          /\ receive_task' = "running"
    /\ Len(log') > Len(log) /\ log'[Len(log')].how = "raised" =>
          /\ UNCHANGED connVars
          /\ ready' = Tail(ready)
    /\ C5_SomeHandlerFailed /\ ResponseStep
           /\ futures[Head(inbox).id].state = "PENDING" =>
          futures'[Head(inbox).id].state = "RESULT"

C5_LoopSurvives == C5_SomeHandlerFailed => receive_task = "running"

C5_HandlerFailureIsolated == [] C5_LoopSurvives /\ [][C5_Isolation]_vars

\* failing_handler, subscribed first, raised on both events; good_handler got
\* both events after it; and a command has been resolved with its result.
C5_BothEventsDelivered ==
    /\ \A n \in 1..MaxEvents :
          \E i, j \in 1..Len(log) :
              /\ i < j
              /\ log[i] = [ ev |-> n, pos |-> 1, handler |-> "failing_handler",
                            how |-> "raised" ]
              /\ log[j] = [ ev |-> n, pos |-> 2, handler |-> "good_handler",
                            how |-> "returned" ]
    /\ \E id \in CmdIds : calls[id].outcome.kind = "result"

\* ---- C7
\* C7: a call of reconnect_with_backoff that does not end in a reconnect
\* failure has reconnected, and has issued an ".enable" command again for
\* every domain that was enabled before the drop.
C7_DomainsReplayed ==
    reconnect.called /\ reconnect.outcome # "ReconnectFailedError" =>
        /\ reconnect.outcome = "connected"
        /\ is_connected
        /\ enabled_domains \subseteq reconnect.replayed

\* ---- C8
\* C8: reconnect_with_backoff(max_attempts) ends in one of two ways: connected
\* after between one and max_attempts connect attempts, or with the reconnect
\* failure raised after exactly max_attempts attempts.
C8_BoundedAttempts ==
    reconnect.called =>
        \/ /\ reconnect.outcome = "connected"
           /\ reconnect.attempts \in 1..reconnect.max_attempts
        \/ /\ reconnect.outcome = "ReconnectFailedError"
           /\ reconnect.attempts = reconnect.max_attempts

\* ---- C9
\* C9: the receive loop reads on while handler tasks are unfinished.  A
\* response that has arrived, for a command a handler awaits or for any
\* other, is eventually routed and the command resolved with it; an event
\* that has arrived is eventually taken and dispatched.
C9_ResponseArrived(id) ==
    /\ futures[id].state = "PENDING"
    /\ \E i \in 1..Len(inbox) : "id" \in inbox[i].keys /\ inbox[i].id = id

C9_EventArrived(n) ==
    \E i \in 1..Len(inbox) : "id" \notin inbox[i].keys /\ inbox[i].params = n

C9_LoopNeverWaitsForHandler ==
    /\ \A id \in CmdIds :
          C9_ResponseArrived(id) ~> futures[id].state = "RESULT"
    /\ \A n \in 1..MaxEvents :
          C9_EventArrived(n) ~> ~ C9_EventArrived(n)

\* Two handler tasks are suspended in their body fetch at once, the second
\* dispatched while the first was waiting, and the loop has resolved the
\* command of one of them.
C9_ResolvedWhileHandlerWaits ==
    \E t1, t2 \in awaiting :
        /\ t1.ev # t2.ev
        /\ calls[t1.cmd].pc = "waiting"
        /\ futures[t1.cmd].state = "RESULT"

\* ---- C10
\* The entries made of the messages delivered so far that pass the level
\* filter, in arrival order.
C10_Captured(e) == level_filter = "None" \/ ShouldCapture(level_filter, e.level)

C10_Entries ==
    SelectSeq([ i \in 1..Len(console_msgs) |->
                  [ timestamp |-> i, level |-> console_msgs[i] ] ], C10_Captured)

\* Those of them that came after the last entry written to the file.
C10_AfterFlush(e) == disk = << >> \/ e.timestamp > disk[Len(disk)].timestamp

C10_SinceFlush == SelectSeq(C10_Entries, C10_AfterFlush)

C10_Latest ==
    IF Len(C10_SinceFlush) <= BufferMaxLen THEN C10_SinceFlush
    ELSE SubSeq(C10_SinceFlush, Len(C10_SinceFlush) - BufferMaxLen + 1,
                Len(C10_SinceFlush))

C11_Entry(i) == [ timestamp |-> i, level |-> console_msgs[i] ]

C11_AtOrAbove(e) ==
    level_filter = "None" \/ LOG_LEVELS[e.level] >= LOG_LEVELS[level_filter]

C11_Expected ==
    SelectSeq([ i \in 1..Len(console_msgs) |-> C11_Entry(i) ], C11_AtOrAbove)

\* What the collector has produced: printed, written to the file, or held in
\* the buffer.
C11_Produced == stdout \o disk \o buffer

\* C11: whatever the collector prints, buffers or writes is an entry at or
\* above the threshold, and the entries come in arrival order; a streaming
\* collector has printed exactly the entries at or above the threshold, and
\* so has a persisting one written or buffered them, as long as the buffer
\* cannot have overflowed.
C11_OnlyAtOrAboveThreshold ==
    /\ \A k \in 1..Len(C11_Produced) :
          /\ C11_Produced[k].timestamp \in 1..Len(console_msgs)
          /\ C11_Produced[k] = C11_Entry(C11_Produced[k].timestamp)
          /\ C11_AtOrAbove(C11_Produced[k])
          /\ k > 1 => C11_Produced[k - 1].timestamp < C11_Produced[k].timestamp
    /\ output_path = "None" => stdout = C11_Expected /\ buffer = << >> /\ disk = << >>
    /\ output_path = "file" /\ Len(C11_Expected) <= BufferMaxLen =>
          stdout = << >> /\ disk \o buffer = C11_Expected

\* With the threshold "warn", a message below it, one at it and one above it
\* have been delivered, and exactly the last two kinds were produced.
C11_BelowAtAbove ==
    /\ level_filter = "warn"
    /\ \E i, j, k \in 1..Len(console_msgs) :
          /\ console_msgs[i] = "log"
          /\ console_msgs[j] = "warn"
          /\ console_msgs[k] = "error"
    /\ Len(C11_Produced) < Len(console_msgs)
    /\ C11_Produced = C11_Expected

\* ---- C12
\* A persisting collector that was started and has been stopped.
C12_Stopped == output_path = "file" /\ ~ running /\ flush_task = "cancelled"

\* C12: once a persisting collector has been stopped, its buffer is empty
\* and its flush task no longer runs; if no more records were captured than
\* the buffer holds, the file has exactly those records, one line each, in
\* order.
C12_StopFlushesAll ==
    C12_Stopped =>
        /\ buffer = << >>
        /\ flush_task # "sleeping"
        /\ Len(C11_Expected) <= BufferMaxLen => disk = C11_Expected

\* Three messages were captured, the collector was stopped and the file has
\* three lines.
C12_ThreeLines ==
    /\ C12_Stopped
    /\ Len(console_msgs) = 3
    /\ Len(disk) = 3
    /\ buffer = << >>

\* ---- C13
\* C13: the side map holds exactly the ids whose last lifecycle event was the
\* opening one: an id is absent once its closing event (loading finished or
\* loading failed) has been handled, and no id is present that was not
\* opened; the step that handles a closing event leaves the id absent.
C13_SideMap ==
    /\ requests \subseteq RequestIds
    /\ \A id \in RequestIds : id \in requests <=> txn[id] = "open"

C13_ClosingStep ==
    \A id \in RequestIds :
        txn[id] # "closed" /\ txn'[id] = "closed" => id \notin requests'

C13_ClosedNotInSideMap == [] C13_SideMap /\ [][C13_ClosingStep]_vars

\* One request was opened and closed by a failure whose entry was built from
\* the stored request; another is still open and stored.
C13_ClosedAndOpen ==
    \E a, b \in RequestIds :
        /\ txn[a] = "closed"
        /\ a \notin requests
        /\ \E k \in 1..Len(net_entries) :
              /\ net_entries[k].requestId = a
              /\ net_entries[k].statusText = "FAILED"
              /\ net_entries[k].matched
        /\ txn[b] = "open"
        /\ b \in requests
\* C14: a connect() made while the connection is connected does not return
\* normally: it is rejected with an error.
C14_ConnectedConnectRejected ==
    connect_call.was_connected => connect_call.outcome # "returned"

C15_Failed == connect_call.outcome = "ConnectionFailedError"

\* A step in which a connect() fails.
C15_FailingStep ==
    connect_call'.outcome = "ConnectionFailedError" /\ connect_call' # connect_call

\* C15: when websockets.connect fails, connect() raises ConnectionFailedError
\* whose details carry the URL of the connection and the cause; after it the
\* connection is not connected and no receive loop runs, and the failing call
\* itself changed neither the socket, the connected flag nor the receive task.
C15_ConnectFailureLeavesDisconnected ==
    /\ [] ( C15_Failed =>
              /\ connect_call.url = ws_url
              /\ connect_call.error = connect_call.cause
              /\ connect_call.cause \in ConnectCauses
              /\ ~ is_connected
              /\ receive_task # "running" )
    /\ [][ C15_FailingStep => UNCHANGED << ws, is_connected_flag, receive_task >> ]_vars

\* A connect() fails on a connection that was connected before and has issued
\* a command.
C15_FailsAfterDrop ==
    /\ C15_Failed
    /\ ws = "CLOSED"
    /\ next_command_id > 1

\* C16: the CommandFailedError that execute_command raises for an error
\* response carries the method of the command and the code of the response.
C16_FailureCarriesMethod ==
    \A id \in CmdIds :
        ( calls[id].pc = "done" /\ calls[id].outcome.kind = "CommandFailedError" ) =>
            /\ calls[id].outcome.method = calls[id].method
            /\ calls[id].outcome.code \in ErrorCodes

\* C17: a call of execute_command that has ended has returned the result or
\* raised CommandFailedError, CDPTimeoutError or ConnectionClosedError, and
\* nothing else.
C17_FourOutcomes ==
    \A id \in CmdIds :
        calls[id].pc = "done" =>
            calls[id].outcome.kind \in { "result", "CommandFailedError",
                                         "CDPTimeoutError", "ConnectionClosedError" }

\* An id enters the pending table in this step.
C18_Registered(id) == id \in pending_commands' /\ id \notin pending_commands

\* C18: an id is in the pending table only while its call of execute_command
\* is under way: every id in the table has been issued and its call has
\* neither returned nor raised; the id of a call that has ended, by whatever
\* outcome, is not in the table; and an id enters the table only in the step
\* that issues it, so it never comes back.
C18_PendingOnlyDuringCall ==
    /\ [] ( \A id \in CmdIds :
              /\ id \in pending_commands =>
                    id < next_command_id /\ calls[id].pc \in { "sending", "waiting" }
              /\ calls[id].pc = "done" => id \notin pending_commands )
    /\ [] ( pending_commands \subseteq CmdIds )
    /\ [][ \A id \in CmdIds :
              C18_Registered(id) =>
                  id = next_command_id /\ next_command_id' = id + 1 ]_vars

\* One call has ended by its timeout and one by the error of send, and the
\* table is empty.
C18_EndedByTimeoutAndSendError ==
    /\ \E id \in CmdIds :
          calls[id].pc = "done" /\ calls[id].outcome.kind = "CDPTimeoutError"
    /\ \E id \in CmdIds :
          calls[id].pc = "done" /\ calls[id].outcome.kind = "websockets.ConnectionClosed"
    /\ pending_commands = {}

\* A step in which execute_command issues an id.
C19_Issues(id) == calls[id].pc = "none" /\ calls'[id].pc # "none"

\* C19: the first id is 1; the counter never decreases, whatever happens to
\* the connection; a command gets the value of the counter, which no command
\* got before, and the counter moves past it; so the ids issued are
\* 1, 2, ... without gap or repetition.
C19_IdsStrictlyIncreasing ==
    /\ next_command_id = 1
    /\ [] ( \A id \in CmdIds : calls[id].pc # "none" <=> id < next_command_id )
    /\ [][ /\ next_command_id' >= next_command_id
           /\ \A id \in CmdIds :
                 C19_Issues(id) => id = next_command_id /\ next_command_id' = id + 1
           /\ next_command_id' # next_command_id => C19_Issues(next_command_id) ]_vars

\* Command 1 was ended by the loss of the connection, and command 2, issued
\* on the connection made after it, waits for its response.
C19_IssuedAfterReconnect ==
    /\ calls[1].pc = "done"
    /\ calls[1].outcome.kind = "ConnectionClosedError"
    /\ calls[2].pc = "waiting"
    /\ futures[2].state = "PENDING"
    /\ is_connected

\* The callbacks registered for a name, none when the name has no list.
C20_List(handlers, e) == IF e \in DOMAIN handlers THEN handlers[e] ELSE << >>

\* new is old without its item at position i.
C20_WithoutItem(old, new, i) ==
    /\ Len(new) = Len(old) - 1
    /\ \A j \in 1..Len(new) : new[j] = IF j < i THEN old[j] ELSE old[j + 1]

\* What a call of subscribe or unsubscribe has to leave alone: the socket,
\* the pending table and the futures in it, and the enabled domains.
C20_Frame ==
    UNCHANGED << ws, close_code, is_connected_flag, receive_task, inbox,
                 pending_commands, futures, next_command_id, enabled_domains >>

\* A step of unsubscribe(event, handler).
C20_UnsubscribeStep ==
    LET c   == unsubscribe_call'
        old == C20_List(event_handlers, c.event)
        new == C20_List(event_handlers', c.event)
    IN unsubscribe_call'.n # unsubscribe_call.n =>
        /\ c.outcome = "returned"
        /\ C20_Frame
        /\ DOMAIN event_handlers' = DOMAIN event_handlers
        /\ \A e \in DOMAIN event_handlers :
              e # c.event => event_handlers'[e] = event_handlers[e]
        /\ IF \E i \in 1..Len(old) : old[i] = c.handler
           THEN \E i \in 1..Len(old) :
                   /\ old[i] = c.handler
                   /\ \A j \in 1..(i - 1) : old[j] # c.handler
                   /\ C20_WithoutItem(old, new, i)
           ELSE event_handlers' = event_handlers

\* A step of subscribe: the registrations change and no unsubscribe was
\* called.
C20_SubscribeStep ==
    ( event_handlers' # event_handlers /\ unsubscribe_call'.n = unsubscribe_call.n ) =>
        /\ C20_Frame
        /\ \E e \in SubEvents, h \in SubCallbacks :
              /\ C20_List(event_handlers', e) = Append(C20_List(event_handlers, e), h)
              /\ \A o \in DOMAIN event_handlers :
                    o # e => ( o \in DOMAIN event_handlers'
                               /\ event_handlers'[o] = event_handlers[o] )

\* C20: unsubscribe(event, handler) returns normally and takes out of the
\* list of that event the first item equal to the handler, every other item
\* of that list and every other list staying as it was; when the handler is
\* not registered for the event nothing changes; and neither subscribe nor
\* unsubscribe changes the socket, the pending table or the enabled domains.
C20_UnsubscribeRemovesFirst == [][ C20_UnsubscribeStep /\ C20_SubscribeStep ]_vars

\* An unsubscribe found its callback and a later registration of the same
\* callback is still there beside another callback, while a command is
\* pending and a domain enabled.
C20_DuplicateLeft ==
    /\ unsubscribe_call.found
    /\ unsubscribe_call.event \in DOMAIN event_handlers
    /\ LET l == event_handlers[unsubscribe_call.event]
       IN /\ Len(l) = 2
          /\ l[1] # unsubscribe_call.handler
          /\ l[2] = unsubscribe_call.handler
    /\ Registered = MaxRegistrations - 1
    /\ pending_commands # {}
    /\ enabled_domains # {}

\* ---- C21
\* A step of connect(), of disconnect() or of the loss of the socket.
C21_TransportStep ==
    \/ ws' # ws
    \/ is_connected_flag' # is_connected_flag
    \/ receive_task' # receive_task
    \/ disc' # disc
    \/ connect_call' # connect_call

\* The loop reads an event.
C21_EventRead ==
    /\ connect_call' = connect_call
    /\ inbox # << >>
    /\ inbox' = Tail(inbox)
    /\ "id" \notin Head(inbox).keys

\* The handlers list has every item of found, at the same place.
C21_StillRegistered(found, handlers) ==
    \A e \in DOMAIN found :
        /\ e \in DOMAIN handlers
        /\ Len(found[e]) <= Len(handlers[e])
        /\ \A i \in 1..Len(found[e]) : handlers[e][i] = found[e][i]

\* C21: no step of connect(), of disconnect() or of the loss of the socket
\* changes the registered handlers, so the handlers a connect() found
\* registered are registered on the connection it made; and an event read
\* from the socket gets one task for each handler registered for its name,
\* whenever the handler was registered.
C21_HandlersSurviveReconnect ==
    /\ [] ( connect_call.outcome = "returned" =>
              C21_StillRegistered(connect_call.handlers, event_handlers) )
    /\ [][ /\ C21_TransportStep => event_handlers' = event_handlers
           /\ C21_EventRead =>
                LET h == HandlersFor(Head(inbox).method)
                IN /\ Len(ready') = Len(ready) + Len(h)
                   /\ \A i \in 1..Len(h) :
                         ready'[Len(ready) + i] =
                             [ ev |-> Head(inbox).params, pos |-> i, handler |-> h[i] ]
         ]_vars

\* The connection was made again after the browser had emitted its first
\* event, with two handlers registered, and both handlers have run for the
\* event that arrived on the new socket.
C21_DeliveredAfterReconnect ==
    /\ is_connected
    /\ connect_call.events = 1
    /\ "Console.messageAdded" \in DOMAIN connect_call.handlers
    /\ Len(connect_call.handlers["Console.messageAdded"]) = 2
    /\ event_handlers = connect_call.handlers
    /\ \A i \in 1..2 : \E j \in 1..Len(log) : log[j].ev = 2 /\ log[j].pos = i

\* ---- C22
\* The loop takes a frame that is no CDP message.
C22_MalformedRead ==
    /\ inbox # << >>
    /\ Head(inbox).keys = {}
    /\ inbox' = Tail(inbox)

\* The loop takes the response to a command that waits for it.
C22_ResponseRead(id) ==
    /\ inbox # << >>
    /\ "id" \in Head(inbox).keys
    /\ Head(inbox).id = id
    /\ inbox' = Tail(inbox)
    /\ id \in pending_commands
    /\ futures[id].state = "PENDING"

\* The loop takes an event.
C22_EventRead ==
    /\ inbox # << >>
    /\ "id" \notin Head(inbox).keys
    /\ "method" \in Head(inbox).keys
    /\ inbox' = Tail(inbox)

\* A message is a response or an event.
C22_WellFormed(m) == "id" \in m.keys \/ "method" \in m.keys

\* A response for command id has arrived behind a frame that is no CDP
\* message.
C22_ResponseBehindMalformed(id) ==
    /\ futures[id].state = "PENDING"
    /\ \E i, j \in 1..Len(inbox) :
          /\ i < j
          /\ inbox[i].keys = {}
          /\ "id" \in inbox[j].keys /\ inbox[j].id = id

\* An event has arrived behind a frame that is no CDP message.
C22_EventBehindMalformed(n) ==
    \E i, j \in 1..Len(inbox) :
        /\ i < j
        /\ inbox[i].keys = {}
        /\ "id" \notin inbox[j].keys /\ "method" \in inbox[j].keys
        /\ inbox[j].params = n

\* C22: the turn of the loop on a frame that is no CDP message leaves the
\* receive task running and the connection connected, and changes neither
\* the pending table, the futures, the handlers nor the enabled domains; the
\* messages behind it are processed: no response and no event stays in the
\* inbox for ever, the response the loop takes resolves its command, and the
\* event it takes gets a task for each handler of its name.
C22_MalformedSkipped ==
    /\ [][ C22_MalformedRead =>
             /\ receive_task' = "running"
             /\ UNCHANGED << is_connected_flag, pending_commands, futures,
                             event_handlers, enabled_domains, ready >> ]_vars
    /\ [][ /\ \A id \in CmdIds :
                 C22_ResponseRead(id) => futures'[id].state = "RESULT"
           /\ C22_EventRead =>
                 Len(ready') = Len(ready) + Len(HandlersFor(Head(inbox).method))
         ]_vars
    /\ <>[] ( \A i \in 1..Len(inbox) : ~ C22_WellFormed(inbox[i]) )

\* A frame that is no CDP message is at the head of the inbox, in front
\* of the response to a command that waits and of an event.
C22_MalformedAhead ==
    /\ Len(inbox) >= 3
    /\ inbox[1].keys = {}
    /\ \E id \in CmdIds : C22_ResponseBehindMalformed(id) /\ calls[id].pc = "waiting"
    /\ \E n \in 1..MaxEvents : C22_EventBehindMalformed(n)
    /\ Registered > 0

\* ---- C23
\* The loop takes a response whose id is not registered or whose future is
\* done already: one with an unknown id, a repeated one, a late one.
C23_StrayRead ==
    /\ ResponseStep
    /\ \/ Head(inbox).id \notin pending_commands
       \/ futures[Head(inbox).id].state # "PENDING"

\* C23: a future that is done stays as it is, and so does the outcome of a
\* call that has ended: what the caller gets is what the first response for
\* its id brought, never the payload of a repeated one; and the loop's turn
\* on a response with an unknown id, a repeated or a late one changes no
\* future, no outcome and not the pending table, and leaves the loop running.
C23_ResolvedOnce ==
    /\ [] ( \A id \in CmdIds :
              /\ futures[id].value.payload # << "duplicate-of", id >>
              /\ calls[id].outcome.payload # << "duplicate-of", id >> )
    /\ [][ \A id \in CmdIds :
              /\ Done(futures[id]) => futures'[id] = futures[id]
              /\ calls[id].pc = "done" => calls'[id] = calls[id] ]_vars
    /\ [][ C23_StrayRead =>
              /\ UNCHANGED << futures, pending_commands, calls, is_connected_flag >>
              /\ receive_task' = "running" ]_vars

\* The response to command 1 has resolved it, the caller has not resumed yet
\* and the id is still registered, and a second response for the same id is
\* the next message the loop takes.
C23_DuplicateWhileRegistered ==
    /\ LoopReads
    /\ HeadIsResponse
    /\ Head(inbox) = DuplicateResponse(1)
    /\ 1 \in pending_commands
    /\ futures[1].state \in { "RESULT", "EXC" }
    /\ calls[1].pc = "waiting"

\* ---- C24
\* The handler is registered for some event on the connection.
C24_Registered(h) ==
    \E e \in DOMAIN event_handlers :
        \E i \in 1..Len(event_handlers[e]) : event_handlers[e][i] = h

C24_StartFailed == lifecycle.start = "raised"

\* C24: when the enable command of start() fails, start() raises the
\* exception of the command, and from then on the collector's handler is not
\* registered on the connection, no flush task exists and the collector is
\* not running; the step in which start() fails changes neither the handlers
\* nor the flush task.
C24_FailedStartRegistersNothing ==
    /\ [] ( C24_StartFailed =>
              /\ ~ C24_Registered("_on_message")
              /\ flush_task = "None"
              /\ ~ running
              /\ lifecycle.error # ""
              /\ lifecycle.cmd # 0 =>
                    /\ calls[lifecycle.cmd].pc = "done"
                    /\ lifecycle.error = calls[lifecycle.cmd].outcome.kind
                    /\ lifecycle.error # "result" )
    /\ [][ ( C24_StartFailed' /\ ~ C24_StartFailed ) =>
              UNCHANGED << event_handlers, flush_task, running, buffer, disk >> ]_vars

\* start() of a collector with an output path has failed with the error
\* response of the browser, while another handler is registered for the
\* console event.
C24_EnableRejected ==
    /\ C24_StartFailed
    /\ lifecycle.error = "CommandFailedError"
    /\ output_path = "file"
    /\ C24_Registered("good_handler")

\* ---- C25
\* stop() ends, in this step, on a collector that was never started or whose
\* start() raised.
C25_StopOfUnstarted ==
    /\ lifecycle.start \in { "none", "raised" }
    /\ lifecycle.stop = "none"
    /\ lifecycle'.stop # "none"

\* C25: stop() on a collector that was never started, or whose start() failed
\* at its enable command, returns normally and changes neither the handlers
\* registered on the connection, nor the file, nor the buffer, nor the
\* commands of the connection.
C25_StopAfterFailedStartIsSafe ==
    [][ C25_StopOfUnstarted =>
          /\ lifecycle'.stop = "returned"
          /\ unsubscribe_call'.outcome = "returned"
          /\ ~ unsubscribe_call'.found
          /\ UNCHANGED << event_handlers, disk, buffer, stdout, pending_commands,
                          futures, enabled_domains, flush_task >> ]_vars

\* stop() has returned on a collector with an output path whose start()
\* failed, while the connection holds a handler of another subscriber for
\* the same event.
C25_StoppedAfterFailedStart ==
    /\ lifecycle.stop = "returned"
    /\ lifecycle.start = "raised"
    /\ output_path = "file"
    /\ C24_Registered("good_handler")

\* ---- C26
C26_Streaming == output_path = "None"

\* A console message is handed to the collector in this step.
C26_Intake == console_msgs' # console_msgs

\* The entry of the message handed over in this step.
C26_NewEntry ==
    [ timestamp |-> Len(console_msgs'), level |-> console_msgs'[Len(console_msgs')] ]

C27_Flush == disk' # disk \/ ( buffer # << >> /\ buffer' = << >> )

\* C27: a flush appends to the file the whole buffer, entry by entry in the
\* order of the buffer, and leaves the buffer empty; no step changes the file
\* otherwise, so what the file had stays, in place and in order, at its
\* beginning.
C27_FlushAppendsWholeBuffer ==
    /\ [][ C27_Flush => disk' = disk \o buffer /\ buffer' = << >> ]_vars
    /\ [][ /\ Len(disk') >= Len(disk)
           /\ \A i \in 1..Len(disk) : disk'[i] = disk[i] ]_vars

\* The file has more lines than the buffer can hold: more than one flush has
\* written to it.
C27_SeveralFlushes ==
    /\ output_path = "file"
    /\ Len(disk) > BufferMaxLen
    /\ buffer = << >>

\* ---- C28
\* The records the collector holds or has written, oldest first.
C28_Kept == disk \o buffer

\* C28: flush and intake are each one step, whatever the order in which the
\* handler tasks, the flush task and the two halves of stop() run.  In a
\* collector with an output path the intake of a record at or above the
\* threshold puts it at the end of the buffer and, when the buffer is full,
\* takes the oldest record out, and changes the file not at all; any other
\* step leaves the records held or written, taken together, exactly as they
\* were: a flush moves the buffer to the file and neither drops nor repeats a
\* record.  No record is in the file or the buffer twice.
C28_FlushAndIntakeAtomic ==
    /\ [] ( \A i, j \in 1..Len(C28_Kept) :
              i < j => C28_Kept[i].timestamp < C28_Kept[j].timestamp )
    /\ [][ output_path = "file" /\ C26_Intake =>
              /\ disk' = disk
              /\ buffer' = IF ~ C11_AtOrAbove(C26_NewEntry) THEN buffer
                           ELSE IF Len(buffer) < BufferMaxLen
                                THEN Append(buffer, C26_NewEntry)
                                ELSE Append(Tail(buffer), C26_NewEntry) ]_vars
    /\ [][ output_path = "file" /\ ~ C26_Intake =>
              /\ disk' \o buffer' = C28_Kept
              /\ buffer' # buffer => buffer' = << >> ]_vars

\* stop() is suspended at the cancelled flush task of a collector that has
\* flushed before, and a record taken in meanwhile is in the buffer.
C28_IntakeDuringStop ==
    /\ output_path = "file"
    /\ lifecycle.stop = "awaiting"
    /\ disk # << >>
    /\ buffer # << >>
    /\ buffer[Len(buffer)].timestamp = Len(console_msgs)

\* ---- C29
\* The fields of an entry that do not come from the body.
C29_Base(e) ==
    [ requestId |-> e.requestId, statusText |-> e.statusText, matched |-> e.matched,
      method |-> e.method ]

\* A call of the response handler ends.
C29_HandlerEnds == log' # log

\* C29: with body capture on, a call of the response handler that ends has
\* produced exactly one entry, and no entry is produced otherwise; the entry
\* of a handler that waited for the body has the base fields built before
\* the wait; entries already produced stay as they are.
C29_OneRecordPerResponse ==
    /\ [] ( Len(net_entries) = Len(log) )
    /\ [][ C29_HandlerEnds =>
             /\ Len(net_entries') = Len(net_entries) + 1
             /\ SubSeq(net_entries', 1, Len(net_entries)) = net_entries
             /\ \A t \in awaiting \ awaiting' :
                   C29_Base(net_entries'[Len(net_entries')]) = C29_Base(t.entry) ]_vars
    /\ [][ ~ C29_HandlerEnds => net_entries' = net_entries ]_vars

\* Every handler that ended without an entry ended by an exception, and
\* every entry with a body has it within max_body_size.
C29_LossOnlyByException ==
    /\ Len(net_entries) = Cardinality({ i \in 1..Len(log) : log[i].how = "returned" })
    /\ \A i \in 1..Len(net_entries) :
          "body" \in net_entries[i].keys
             => /\ net_entries[i].body # << >>
                /\ Len(net_entries[i].body) <= max_body_size

\* A handler has ended by an exception and another with a body attached.
C29_BothFates ==
    /\ \E i \in 1..Len(log) : log[i].how = "raised"
    /\ \E i \in 1..Len(net_entries) : "body" \in net_entries[i].keys

\* ---- C30
\* A call of execute_command is refused.
C30_RefusedStep == refused' # refused

\* A call of execute_command gets past lines 183-184.
C30_AcceptedStep == \E id \in CmdIds : calls[id].pc = "none" /\ calls'[id].pc # "none"

\* C30: a call of execute_command on a connection that is not connected
\* raises ConnectionClosedError and leaves the connection as it was: the
\* next command id, the pending commands and their futures, the recorded
\* domains, the calls in progress, what the browser has been sent and what
\* it has answered are unchanged.  A call is accepted only on a connected
\* one.
C30_NotConnectedChangesNothing ==
    /\ [][ C30_RefusedStep =>
             /\ ~ is_connected
             /\ refused'.outcome = "ConnectionClosedError"
             /\ UNCHANGED << next_command_id, pending_commands, futures,
                             enabled_domains, calls, browser_cmds, inbox, ws,
                             is_connected_flag, receive_task >> ]_vars
    /\ [][ C30_AcceptedStep => is_connected ]_vars

\* Calls have been refused before the first connect(), after the socket
\* had ended and after disconnect(), and commands were issued in between.
C30_RefusedInEveryState ==
    /\ refused.met = { "never connected", "transport closed", "disconnected" }
    /\ next_command_id > 1

\* ---- C31
\* C31: the set of enabled domains only grows: no step of the connection,
\* be it a ".disable" command, a command that fails or times out,
\* disconnect(), the loss of the socket or a new connect(), takes a domain
\* out of it.
C31_DomainsOnlyGrow == [][ enabled_domains \subseteq enabled_domains' ]_vars

\* The connection is connected again after a drop that interrupted
\* Console.enable, Console.disable has been sent and rejected since, and
\* Console is still in the set.
C31_KeptThroughDropAndDisable ==
    /\ is_connected
    /\ calls[1].method = << "Console", "enable" >>
    /\ calls[1].outcome.kind = "ConnectionClosedError"
    /\ calls[2].method = << "Console", "disable" >>
    /\ calls[2].outcome.kind = "CommandFailedError"
    /\ "Console" \in enabled_domains

\* ---- C32
\* The collector's handler is registered on the connection.
C32_Registered ==
    /\ "Console.messageAdded" \in DOMAIN event_handlers
    /\ Positions(event_handlers["Console.messageAdded"], "_on_message") # {}

\* The block is being executed.
C32_Inside == lifecycle.start = "returned" /\ lifecycle.block = "none"

\* The block is left.
C32_ExitStep == lifecycle.block = "none" /\ lifecycle'.block # "none"

\* C32: inside the block the collector is started: running and its handler
\* registered.  Whichever way the block is left, by its end or by an
\* exception, stop() has run when the "async with" statement is over: the
\* records buffered at that moment are in the file, in order, behind what
\* was there, the buffer is empty, no flush task sleeps, the collector is
\* not running and its handler is not registered; and an exception of the
\* block, and nothing else, leaves the statement.
C32_StopOnEveryExit ==
    /\ [] ( C32_Inside => running /\ C32_Registered )
    /\ [] ( lifecycle.block # "none" =>
              /\ lifecycle.stop = "returned"
              /\ ~ running
              /\ buffer = << >>
              /\ flush_task # "sleeping"
              /\ ~ C32_Registered
              /\ lifecycle.propagated =
                    IF lifecycle.block = "raised" THEN "exception of the block"
                    ELSE "nothing" )
    /\ [][ C32_ExitStep =>
             /\ C32_Inside
             /\ output_path = "file" => disk' = disk \o buffer ]_vars

\* The block raised with the collector holding records: they are in the
\* file, the handler was found and removed, and the exception went on.
C32_RaisedBlockFlushed ==
    /\ lifecycle.block = "raised"
    /\ lifecycle.propagated = "exception of the block"
    /\ output_path = "file"
    /\ Len(disk) >= 2
    /\ unsubscribe_call.found
    /\ ~ running

\* ---- C33
\* The loop takes a message.
C33_ReadStep ==
    /\ inbox # << >>
    /\ Len(inbox') < Len(inbox)
    /\ connect_call' = connect_call

\* C33: the loop takes the messages one at a time, the oldest first: a turn
\* of the loop takes the head of what has arrived and nothing else, resolves
\* its future when it is the response of a pending command, and makes its
\* handler tasks when it is an event; tasks made for an earlier event are
\* ahead of those made for a later one, and a handler that has started for
\* an event has started for every earlier event it was given.
C33_WireOrder ==
    /\ [][ C33_ReadStep =>
             /\ inbox' = Tail(inbox)
             /\ LET m == Head(inbox) IN
                /\ ( "id" \in m.keys /\ m.id \in pending_commands
                     /\ ~ Done(futures[m.id]) ) => Done(futures'[m.id])
                /\ \A id \in CmdIds : ( "id" \notin m.keys \/ id # m.id )
                                         => futures'[id] = futures[id]
                /\ "id" \notin m.keys =>
                      /\ Len(ready') >= Len(ready)
                      /\ SubSeq(ready', 1, Len(ready)) = ready
                      /\ \A i \in Len(ready) + 1 .. Len(ready') :
                            ready'[i].ev = m.params
                /\ "id" \in m.keys => ready' = ready ]_vars
    /\ [] ( \A i, j \in 1..Len(ready) : i < j => ready[i].ev <= ready[j].ev )
    /\ [] ( \A i, j \in 1..Len(log) :
              ( i < j /\ log[i].handler = log[j].handler /\ log[i].pos = log[j].pos )
                 => log[i].ev < log[j].ev )
    /\ [] ( \A i \in 1..Len(log), j \in 1..Len(ready) :
              ( log[i].handler = ready[j].handler /\ log[i].pos = ready[j].pos )
                 => log[i].ev < ready[j].ev )

\* The handler has run for two events in their order, the second after its
\* task had waited behind the first, and a response that arrived between
\* them has resolved its command.
C33_TwoEventsInOrder ==
    /\ Len(log) >= 2
    /\ log[1].ev = 1
    /\ log[2].ev = 2
    /\ \E id \in CmdIds : futures[id].state = "RESULT"

\* ---- C34
\* The loop takes an event.
C34_EventStep ==
    /\ receive_task = "running"
    /\ inbox # << >>
    /\ "id" \notin Head(inbox).keys
    /\ inbox' = Tail(inbox)
    /\ connect_call' = connect_call

\* The callbacks registered for the name of the event the loop takes.
C34_Handlers ==
    IF Head(inbox).method \in DOMAIN event_handlers
    THEN event_handlers[Head(inbox).method] ELSE << >>

\* The tasks made and not started, and the tasks that have run.
C34_Tasks ==
    ready \o [ i \in 1..Len(log) |->
                 [ ev |-> log[i].ev, pos |-> log[i].pos, handler |-> log[i].handler ] ]

\* C34: the turn of the loop on an event makes one task for each callback
\* registered for the event's name at that moment, in the order of
\* registration and with the event's params, and none for a callback of
\* another name; with no callback registered for the name it makes none and
\* changes nothing but the messages waiting.  Each task made runs once: no
\* callback is invoked twice for one event and one registration, and a
\* task leaves the queue only by running.
C34_EachHandlerOnce ==
    /\ [][ C34_EventStep =>
             /\ Len(ready') = Len(ready) + Len(C34_Handlers)
             /\ SubSeq(ready', 1, Len(ready)) = ready
             /\ \A i \in 1..Len(C34_Handlers) :
                   ready'[Len(ready) + i] =
                      [ ev |-> Head(inbox).params, pos |-> i,
                        handler |-> C34_Handlers[i] ]
             /\ UNCHANGED << event_handlers, log, futures, pending_commands >> ]_vars
    /\ [][ ready' # ready /\ ~ C34_EventStep =>
             /\ ready # << >>
             /\ ready' = Tail(ready)
             /\ Len(log') = Len(log) + 1
             /\ SubSeq(log', 1, Len(log)) = log
             /\ log'[Len(log')].ev = Head(ready).ev
             /\ log'[Len(log')].pos = Head(ready).pos
             /\ log'[Len(log')].handler = Head(ready).handler ]_vars
    /\ [][ ready' = ready => log' = log ]_vars
    /\ [] ( \A i, j \in 1..Len(C34_Tasks) :
              ( i # j /\ C34_Tasks[i].ev = C34_Tasks[j].ev )
                 => C34_Tasks[i].pos # C34_Tasks[j].pos )

\* Two different callbacks registered for one name have both run for an
\* event of that name, in the order of registration, and an event of the
\* other name, for which nothing was registered, has been taken since.
C34_BothRanOtherDropped ==
    /\ Len(log) = 2
    /\ log[1].ev = log[2].ev
    /\ log[1].pos = 1 /\ log[2].pos = 2
    /\ log[1].handler # log[2].handler
    /\ emitted = 2
    /\ inbox = << >>
    /\ ready = << >>
    /\ Cardinality(DOMAIN event_handlers) = 1

\* ---- C35
\* The receive tasks of the connection that are alive: the one
\* self._receive_task refers to, and one that a connect() left behind on
\* the socket it replaced.
C35_ActiveLoops ==
    ( IF receive_task = "running" THEN 1 ELSE 0 )
  + ( IF connect_call.orphaned THEN 1 ELSE 0 )

\* C35: at every moment at most one receive loop of the connection is
\* alive, whatever connect(), disconnect() and the peer have done.
C35_AtMostOneLoop == C35_ActiveLoops <= 1

\* ---- C36
\* The methods of the commands issued so far.
C36_Issued == { calls[id].method : id \in { i \in CmdIds : calls[i].pc # "none" } }

\* The method is "<something>.enable": it has a dot and "enable" is all
\* that follows its last dot.
C36_IsEnable(m) == Len(m) >= 2 /\ m[Len(m)] = "enable"

\* C36: the enabled domains are exactly the parts before the first dot of
\* the methods issued that end in ".enable"; a method that ends otherwise,
\* "Console.enableSomething", "Console.disable" and a bare "enable"
\* included, adds nothing.
C36_ExactSuffix ==
    enabled_domains = { m[1] : m \in { x \in C36_Issued : C36_IsEnable(x) } }

\* "Console.enableSomething" and "Page.lifecycle.enable" have been issued:
\* Page is recorded and Console is not.
C36_LookAlikesIssued ==
    /\ << "Console", "enableSomething" >> \in C36_Issued
    /\ << "Page", "lifecycle", "enable" >> \in C36_Issued
    /\ enabled_domains = { "Page" }

\* ---- C37
\* A record is produced.
C37_RecordStep == Len(net_entries') > Len(net_entries)

\* C37: the record of a response or of a failure is built from what the
\* opening event of its request stored, whenever that event was handled
\* before and no closing event since: it carries the method the opening
\* event had.  For an id whose opening event was not seen, or whose request
\* is closed already, and for params without an id, the record is produced
\* all the same, with the default method "GET".  What is stored under an id
\* changes only when an opening event for it is handled, and goes when its
\* closing event is.
C37_ClosingRecordEnriched ==
    /\ [][ C37_RecordStep =>
             /\ Len(net_entries') = Len(net_entries) + 1
             /\ SubSeq(net_entries', 1, Len(net_entries)) = net_entries
             /\ LET e == net_entries'[Len(net_entries')] IN
                IF e.requestId # NoRequestId /\ txn[e.requestId] = "open"
                THEN /\ e.matched
                     /\ e.method = stored_method[e.requestId]
                     /\ e.method \in RequestMethods
                ELSE /\ ~ e.matched
                     /\ e.method = "GET" ]_vars
    /\ [][ \A id \in RequestIds :
             stored_method'[id] # stored_method[id] =>
                \/ txn'[id] = "open" /\ stored_method'[id] \in RequestMethods
                \/ txn'[id] = "closed" /\ stored_method'[id] = "none" ]_vars

\* A response carries the POST of its request, a failure of a request
\* closed before carries the default, and so does a response without an id.
C37_EnrichedAndDefault ==
    /\ Len(net_entries) = 3
    /\ \E i \in 1..3 : /\ net_entries[i].matched
                       /\ net_entries[i].method = "POST"
                       /\ net_entries[i].statusText = "response"
    /\ \E i \in 1..3 : /\ ~ net_entries[i].matched
                       /\ net_entries[i].requestId # NoRequestId
                       /\ txn[net_entries[i].requestId] = "closed"
                       /\ net_entries[i].statusText = "FAILED"
    /\ \E i \in 1..3 : net_entries[i].requestId = NoRequestId

\* ---------------------------------------------------------------- C38
\* The records the collector has put out for event n: on the file, in the
\* buffer and on stdout.
C38_Records(n) ==
    LET out == disk \o buffer \o stdout IN
    Cardinality({ i \in 1..Len(out) : out[i].timestamp = n })

\* The calls of start() that have returned; with an output path each of
\* them has made a periodic flush task, and none of these tasks ends before
\* stop() is called.
C38_Started ==
    { id \in 1..MaxCommands :
        /\ calls[id].owner = << "start" >>
        /\ calls[id].pc = "done"
        /\ calls[id].outcome.kind = "result"
        /\ ( id # lifecycle.cmd \/ lifecycle.start = "returned" ) }

\* The handler of the collector is registered at most once for its event.
C38_RegisteredOnce ==
    Cardinality(Positions(HandlersFor("Console.messageAdded"), "_on_message")) <= 1

\* Until stop() is called there is at most one periodic flush task.
C38_OneFlushTask ==
    ( output_path = "file" /\ lifecycle.stop = "none" ) => Cardinality(C38_Started) <= 1

\* C38: whatever calls of start() and stop() the collector has had, start()
\* on a started collector among them, its handler is registered once and
\* so every event it lets through has exactly one record in the output:
\* no event has two.
C38_OneRecordPerEvent == \A n \in 1..MaxEvents : C38_Records(n) <= 1

\* ---------------------------------------------------------------- C39
\* Every record a handler has appended is on the file.
C39_AllPersisted ==
    \A i \in 1..Len(net_entries) :
        \E j \in 1..Len(disk) : disk[j] = net_entries[i]

\* C39: once stop() has returned on a collector with an output path, the
\* buffer is empty and stays so: no handler task made before stop() appends
\* after the last flush.
C39_EmptyAfterStop == lifecycle.stop = "returned" => buffer = << >>

\* stop() has returned and a handler that was awaiting its body fetch has
\* appended since: its record is in the buffer and not on the file.
C39_LateRecord ==
    /\ lifecycle.stop = "returned"
    /\ buffer # << >>
    /\ ~ C39_AllPersisted
    /\ awaiting = {}

\* ---------------------------------------------------------------- C40
\* stop() has been called and has ended, by returning or by raising.
C40_StopEnded == lifecycle.stop \in { "returned", "raised" }

\* C40: however the writes to the file have gone, a stop() that has ended
\* has left the handler of the collector unregistered from the connection,
\* the flag cleared and no flush task sleeping.
C40_StopUnregisters ==
    C40_StopEnded =>
        /\ ~ C24_Registered("_on_message")
        /\ ~ running
        /\ flush_task # "sleeping"

\* stop() has met a flush task that had ended with a write error, and has
\* ended with the handler still registered.
C40_LeftRegistered ==
    /\ lifecycle.stop = "raised"
    /\ flush_task = "failed"
    /\ C24_Registered("_on_message")

====
